---- MODULE Spec2Model ----
(***************************************************************************)
(* A model of the source-to-source compiler pipeline of src/api:           *)
(* semantic analysis, lowering to three-address code, the optimizer's      *)
(* driver and the orchestrator that sequences them.                        *)
(*                                                                         *)
(* Text is modelled as a sequence of one-character strings, so that the    *)
(* textual tests of the code (float() parsing, substring and prefix        *)
(* tests, str() rendering) are computed as the code computes them.         *)
(* Python's None is the distinguished text NoneVal.                        *)
(***************************************************************************)
EXTENDS Integers, Sequences, FiniteSets, TLC

VARIABLES
    pc,                \* position of compile_and_execute: the next stage to run
    symbols,           \* SemanticAnalyzer.symbol_table.symbols (the defined names)
    ast,               \* the parsed Program of the running call (a statement list)
    compilation_data,  \* SourceToSourceCompiler.compilation_data, the result record
    code,              \* optimize(): optimized_code, the sequence being rewritten
    variable_usage,    \* RLOptimizer.variable_usage: name -> set of use indices
    optimization_log,  \* optimize(): optimization_log
    loops,             \* optimize(): loops (the current loop records)
    worklist,          \* optimize(): the constant_assignments list being iterated
    position,          \* optimize(): the index of the second pass into its list
    intermediate_code, \* compile_and_execute(): the generator's output
    q_table,           \* RLOptimizer.q_table: state key -> (action key -> value)
    transition,        \* the arguments of the last update_q_value call, if any
    chosen,            \* the arguments and result of the last choose_action call, if any
    calls,             \* concurrent requests: each call's position and local variables
    instance           \* concurrent requests: the shared compiler's attributes and the
                       \* result dicts created so far

vars == <<pc, symbols, ast, compilation_data, code, variable_usage,
          optimization_log, loops, worklist, position, intermediate_code,
          q_table, transition, chosen, calls, instance>>

-----------------------------------------------------------------------------
(* Text helpers *)

NoneVal == <<"<None>">>

Truthy(v) == v # NoneVal /\ v # <<>>

IsStr(v) == v # NoneVal

DigitChars == <<"0", "1", "2", "3", "4", "5", "6", "7", "8", "9">>

IsDigit(c) == \E d \in 1..10 : DigitChars[d] = c

DigitVal(c) == (CHOOSE d \in 1..10 : DigitChars[d] = c) - 1

RECURSIVE NatStr(_)
NatStr(n) == IF n < 10 THEN <<DigitChars[n + 1]>>
             ELSE NatStr(n \div 10) \o <<DigitChars[(n % 10) + 1]>>

IntStr(n) == IF n < 0 THEN <<"-">> \o NatStr(-n) ELSE NatStr(n)

\* s in t for Python strings: s occurs as a contiguous substring of t
Contains(s, t) ==
    \E k \in 0..(Len(t) - Len(s)) : SubSeq(t, k + 1, k + Len(s)) = s

StartsWith(t, s) == Len(t) >= Len(s) /\ SubSeq(t, 1, Len(s)) = s

EndsWith(t, s) == Len(t) >= Len(s) /\ SubSeq(t, Len(t) - Len(s) + 1, Len(t)) = s

LowerChar(c) ==
    CASE c = "I" -> "i" [] c = "N" -> "n" [] c = "F" -> "f" [] c = "A" -> "a"
      [] c = "T" -> "t" [] c = "Y" -> "y" [] OTHER -> c

Lower(t) == [k \in 1..Len(t) |-> LowerChar(t[k])]

\* '\n'.join(lines)
RECURSIVE Join(_)
Join(lines) ==
    IF lines = <<>> THEN <<>>
    ELSE IF Len(lines) = 1 THEN lines[1]
    ELSE lines[1] \o <<"\n">> \o Join(Tail(lines))

-----------------------------------------------------------------------------
(* AST nodes *)

NumberLiteral(v) == [node |-> "NumberLiteral", value |-> v]

StringLiteral(t) == [node |-> "StringLiteral", text |-> t]

Identifier(n) == [node |-> "Identifier", name |-> n]

BinaryOperation(l, op, r) ==
    [node |-> "BinaryOperation", left |-> l, operator |-> op, right |-> r]

UnaryOperation(op, e) == [node |-> "UnaryOperation", operator |-> op, operand |-> e]

AssignmentStatement(t, op, e) ==
    [node |-> "AssignmentStatement", target |-> t, operator |-> op, value |-> e]

PrintStatement(e) == [node |-> "PrintStatement", expression |-> e]

ScanStatement(t) == [node |-> "ScanStatement", target |-> t]

WhileStatement(c, b) == [node |-> "WhileStatement", condition |-> c, body |-> b]

\* else_body is None exactly when has_else is FALSE
IfStatement(c, t, h, e) ==
    [node |-> "IfStatement", condition |-> c, then_body |-> t,
     has_else |-> h, else_body |-> e]

-----------------------------------------------------------------------------
(* Semantic analyzer *)

UndefinedMsg(n) ==
    <<"U","n","d","e","f","i","n","e","d"," ","v","a","r","i","a","b","l","e"," ","'">>
    \o n \o <<"'">>

DivZeroMsg == <<"D","i","v","i","s","i","o","n"," ","b","y"," ","z","e","r","o">>

lookup(syms, n) == n \in syms

\* a variant that forgets to look at the operator
IsZeroRightOperand(e) ==
    /\ e.right.node = "NumberLiteral"
    /\ e.right.value = 0

\* the test visit_binary_operation makes after visiting both operands
IsDivisionByZero(e) ==
    /\ e.operator \in {"/", "%"}
    /\ e.right.node = "NumberLiteral"
    /\ e.right.value = 0

RECURSIVE AnalyzeExpr(_, _)
AnalyzeExpr(e, syms) ==
    CASE e.node = "NumberLiteral" -> <<>>
      [] e.node = "StringLiteral" -> <<>>
      [] e.node = "Identifier" ->
            IF lookup(syms, e.name) THEN <<>> ELSE <<UndefinedMsg(e.name)>>
      [] e.node = "BinaryOperation" ->
            AnalyzeExpr(e.left, syms) \o AnalyzeExpr(e.right, syms)
            \o (IF IsDivisionByZero(e) THEN <<DivZeroMsg>> ELSE <<>>)
      [] e.node = "UnaryOperation" -> AnalyzeExpr(e.operand, syms)

\* The visitor state threaded through the statements: errors and the symbols.
RECURSIVE AnalyzeStmts(_, _)
AnalyzeStmt(s, st) ==
    CASE s.node = "AssignmentStatement" ->
            [errors |-> st.errors \o AnalyzeExpr(s.value, st.symbols),
             symbols |-> st.symbols \cup {s.target}]
      [] s.node = "PrintStatement" ->
            [st EXCEPT !.errors = @ \o AnalyzeExpr(s.expression, st.symbols)]
      [] s.node = "ScanStatement" ->
            [st EXCEPT !.symbols = @ \cup {s.target}]
      [] s.node = "WhileStatement" ->
            AnalyzeStmts(s.body,
                [st EXCEPT !.errors = @ \o AnalyzeExpr(s.condition, st.symbols)])
      [] s.node = "IfStatement" ->
            LET c == [st EXCEPT !.errors = @ \o AnalyzeExpr(s.condition, st.symbols)]
                t == AnalyzeStmts(s.then_body, c)
            IN  IF s.has_else /\ s.else_body # <<>>
                THEN AnalyzeStmts(s.else_body, t) ELSE t

AnalyzeStmts(stmts, st) ==
    IF stmts = <<>> THEN st
    ELSE AnalyzeStmts(Tail(stmts), AnalyzeStmt(stmts[1], st))

\* analyze(): errors restart empty, the symbol table is the analyzer's own
analyze(program, syms) == AnalyzeStmts(program, [errors |-> <<>>, symbols |-> syms])

-----------------------------------------------------------------------------
(* Python floats, as far as the operand texts of the model need them:      *)
(* finite values are exact fractions num/den in lowest terms, and inf and  *)
(* nan are the two non-finite kinds float() also accepts as words.         *)

RECURSIVE GCD(_, _)
GCD(a, b) == IF b = 0 THEN a ELSE GCD(b, a % b)

Abs(n) == IF n < 0 THEN -n ELSE n

Fin(n, d) ==
    LET g == GCD(Abs(n), d)
    IN  [k |-> "fin", num |-> n \div g, den |-> d \div g]

Inf(sgn) == [k |-> "inf", num |-> sgn, den |-> 0]

NaN == [k |-> "nan", num |-> 0, den |-> 0]

NoFloat == [k |-> "error", num |-> 0, den |-> 0]

RECURSIVE DigitsVal(_)
DigitsVal(t) ==
    IF t = <<>> THEN 0 ELSE 10 * DigitsVal(SubSeq(t, 1, Len(t) - 1)) + DigitVal(t[Len(t)])

RECURSIVE Pow10(_)
Pow10(n) == IF n = 0 THEN 1 ELSE 10 * Pow10(n - 1)

\* the unsigned decimal part of float(): digits with at most one point
ParseDecimal(t) ==
    LET dots == {k \in 1..Len(t) : t[k] = "."}
        ok   == /\ \A k \in 1..Len(t) : IsDigit(t[k]) \/ t[k] = "."
                /\ Cardinality(dots) <= 1
                /\ \E k \in 1..Len(t) : IsDigit(t[k])
    IN  IF ~ok THEN NoFloat
        ELSE IF dots = {} THEN Fin(DigitsVal(t), 1)
        ELSE LET d    == CHOOSE k \in dots : TRUE
                 ip   == SubSeq(t, 1, d - 1)
                 fp   == SubSeq(t, d + 1, Len(t))
             IN  Fin(DigitsVal(ip) * Pow10(Len(fp)) + DigitsVal(fp), Pow10(Len(fp)))

Negate(v) == IF v.k = "error" \/ v.k = "nan" THEN v ELSE [v EXCEPT !.num = -@]

\* float(value): ValueError is NoFloat
float(t) ==
    LET signed == t # <<>> /\ t[1] \in {"+", "-"}
        body   == IF signed THEN Tail(t) ELSE t
        word   == Lower(body)
        mag    == IF word \in {<<"i","n","f">>, <<"i","n","f","i","n","i","t","y">>}
                  THEN Inf(1)
                  ELSE IF word = <<"n","a","n">> THEN NaN
                  ELSE ParseDecimal(body)
    IN  IF signed /\ t[1] = "-" THEN Negate(mag) ELSE mag

Quote == "\""

is_constant(value) ==
    IF ~IsStr(value) THEN FALSE
    ELSE IF float(value).k # "error" THEN TRUE
    ELSE StartsWith(value, <<Quote>>) /\ EndsWith(value, <<Quote>>)

Sign(n) == IF n < 0 THEN -1 ELSE IF n > 0 THEN 1 ELSE 0

\* val1 <op> val2 on floats; "/" is only asked with val2 != 0
FloatArith(op, a, b) ==
    IF a.k = "nan" \/ b.k = "nan" THEN NaN
    ELSE IF a.k = "fin" /\ b.k = "fin" THEN
        CASE op = "+" -> Fin(a.num * b.den + b.num * a.den, a.den * b.den)
          [] op = "-" -> Fin(a.num * b.den - b.num * a.den, a.den * b.den)
          [] op = "*" -> Fin(a.num * b.num, a.den * b.den)
          [] op = "/" -> Fin(Sign(b.num) * a.num * b.den, a.den * Abs(b.num))
    ELSE
        CASE op = "+" -> IF a.k = "inf" /\ b.k = "inf" /\ a.num # b.num THEN NaN
                         ELSE IF a.k = "inf" THEN a ELSE b
          [] op = "-" -> IF a.k = "inf" /\ b.k = "inf" /\ a.num = b.num THEN NaN
                         ELSE IF a.k = "inf" THEN a ELSE Negate(b)
          [] op = "*" -> IF Sign(a.num) * Sign(b.num) = 0 THEN NaN
                         ELSE Inf(Sign(a.num) * Sign(b.num))
          [] op = "/" -> IF a.k = "inf" /\ b.k = "inf" THEN NaN
                         ELSE IF a.k = "inf" THEN Inf(Sign(a.num) * Sign(b.num))
                         ELSE Fin(0, 1)

\* the digits after the point of r/den, r < den, for a terminating decimal
RECURSIVE FracDigits(_, _, _)
FracDigits(r, den, fuel) ==
    IF r = 0 \/ fuel = 0 THEN <<>>
    ELSE <<DigitChars[((r * 10) \div den) + 1]>> \o FracDigits((r * 10) % den, den, fuel - 1)

\* a variant that renders the integral part only, as str(int(x)) does
FloatStrAsInteger(v) ==
    (IF v.num < 0 THEN <<"-">> ELSE <<>>) \o NatStr(Abs(v.num) \div v.den)

\* str(x) of a finite float
FloatStr(v) ==
    LET m == Abs(v.num)
        frac == FracDigits(m % v.den, v.den, 17)
    IN  (IF v.num < 0 THEN <<"-">> ELSE <<>>)
        \o NatStr(m \div v.den) \o <<".">> \o (IF frac = <<>> THEN <<"0">> ELSE frac)

-----------------------------------------------------------------------------
(* Three-address code and the IR generator *)

ThreeAddressCode(op, a1, a2, r) ==
    [operation |-> op, arg1 |-> a1, arg2 |-> a2, result |-> r]

\* ThreeAddressCode.__str__; f"{None}" renders None as the word None
Show(v) == IF v = NoneVal THEN <<"N","o","n","e">> ELSE v

StrInstr(ins) ==
    CASE ins.operation = "ASSIGN" -> Show(ins.result) \o <<" ","="," ">> \o Show(ins.arg1)
      [] ins.operation = "PRINT" -> <<"PRINT"," ">> \o Show(ins.arg1)
      [] ins.operation = "SCAN" -> <<"SCAN"," ">> \o Show(ins.result)
      [] ins.operation = "LABEL" -> Show(ins.arg1) \o <<":">>
      [] ins.operation = "GOTO" -> <<"GOTO"," ">> \o Show(ins.arg1)
      [] ins.operation = "IF_FALSE" ->
            <<"IF_FALSE"," ">> \o Show(ins.arg1) \o <<" ","GOTO"," ">> \o Show(ins.arg2)
      [] OTHER ->
            IF ins.arg2 = NoneVal
            THEN Show(ins.result) \o <<" ","="," ",ins.operation," ">> \o Show(ins.arg1)
            ELSE Show(ins.result) \o <<" ","="," ">> \o Show(ins.arg1)
                 \o <<" ",ins.operation," ">> \o Show(ins.arg2)

\* the generator's fields: code, temp_counter, label_counter
NewGenerator == [code |-> <<>>, temp_counter |-> 0, label_counter |-> 0]

TempName(n) == <<"t">> \o NatStr(n)

LabelName(n) == <<"L">> \o NatStr(n)

emit(g, op, a1, a2, r) == [g EXCEPT !.code = Append(@, ThreeAddressCode(op, a1, a2, r))]

\* expression visitors: the generator after the visit and the operand returned
RECURSIVE GenExpr(_, _)
GenExpr(e, g) ==
    CASE e.node = "NumberLiteral" -> [g |-> g, ref |-> FloatStr(Fin(e.value, 1))]
      [] e.node = "StringLiteral" -> [g |-> g, ref |-> <<Quote>> \o e.text \o <<Quote>>]
      [] e.node = "Identifier" -> [g |-> g, ref |-> e.name]
      [] e.node = "BinaryOperation" ->
            LET l == GenExpr(e.left, g)
                r == GenExpr(e.right, l.g)
                n == r.g.temp_counter + 1
                g1 == [r.g EXCEPT !.temp_counter = n]
            IN  [g |-> emit(g1, e.operator, l.ref, r.ref, TempName(n)),
                 ref |-> TempName(n)]
      [] e.node = "UnaryOperation" ->
            LET o == GenExpr(e.operand, g)
                n == o.g.temp_counter + 1
                g1 == [o.g EXCEPT !.temp_counter = n]
            IN  [g |-> emit(g1, e.operator, o.ref, NoneVal, TempName(n)),
                 ref |-> TempName(n)]

\* a variant that computes a compound assignment straight into its target
visit_assignment_in_place(s, g) ==
    LET v == GenExpr(s.value, g)
    IN  CASE s.operator = "=" -> emit(v.g, "ASSIGN", v.ref, NoneVal, s.target)
          [] s.operator = "+=" -> emit(v.g, "+", s.target, v.ref, s.target)
          [] s.operator = "-=" -> emit(v.g, "-", s.target, v.ref, s.target)
          [] OTHER -> v.g

visit_assignment_statement(s, g) ==
    LET v == GenExpr(s.value, g)
        n == v.g.temp_counter + 1
        g1 == [v.g EXCEPT !.temp_counter = n]
    IN  CASE s.operator = "=" -> emit(v.g, "ASSIGN", v.ref, NoneVal, s.target)
          [] s.operator = "+=" ->
                emit(emit(g1, "+", s.target, v.ref, TempName(n)),
                     "ASSIGN", TempName(n), NoneVal, s.target)
          [] s.operator = "-=" ->
                emit(emit(g1, "-", s.target, v.ref, TempName(n)),
                     "ASSIGN", TempName(n), NoneVal, s.target)
          [] OTHER -> v.g

RECURSIVE GenStmts(_, _)
\* a variant that tests the condition after the body
visit_while_statement_test_last(s, g) ==
    LET start_label == LabelName(g.label_counter + 1)
        end_label   == LabelName(g.label_counter + 2)
        g1 == emit([g EXCEPT !.label_counter = @ + 2], "LABEL", start_label, NoneVal, NoneVal)
        g2 == GenStmts(s.body, g1)
        c  == GenExpr(s.condition, g2)
        g3 == emit(c.g, "IF_FALSE", c.ref, end_label, NoneVal)
    IN  emit(emit(g3, "GOTO", start_label, NoneVal, NoneVal),
             "LABEL", end_label, NoneVal, NoneVal)

visit_while_statement(s, g) ==
    LET start_label == LabelName(g.label_counter + 1)
        end_label   == LabelName(g.label_counter + 2)
        g1 == emit([g EXCEPT !.label_counter = @ + 2], "LABEL", start_label, NoneVal, NoneVal)
        c  == GenExpr(s.condition, g1)
        g2 == emit(c.g, "IF_FALSE", c.ref, end_label, NoneVal)
        g3 == GenStmts(s.body, g2)
    IN  emit(emit(g3, "GOTO", start_label, NoneVal, NoneVal),
             "LABEL", end_label, NoneVal, NoneVal)

\* a variant that goes by the else keyword, not by the else body's truth value
visit_if_statement_by_keyword(s, g) ==
    LET else_label == LabelName(g.label_counter + 1)
        end_label  == LabelName(g.label_counter + 2)
        c  == GenExpr(s.condition, [g EXCEPT !.label_counter = @ + 2])
        g1 == emit(c.g, "IF_FALSE", c.ref, else_label, NoneVal)
        g2 == GenStmts(s.then_body, g1)
    IN  IF s.has_else
        THEN LET g3 == emit(emit(g2, "GOTO", end_label, NoneVal, NoneVal),
                            "LABEL", else_label, NoneVal, NoneVal)
             IN  emit(GenStmts(s.else_body, g3), "LABEL", end_label, NoneVal, NoneVal)
        ELSE emit(g2, "LABEL", else_label, NoneVal, NoneVal)

visit_if_statement(s, g) ==
    LET else_label == LabelName(g.label_counter + 1)
        end_label  == LabelName(g.label_counter + 2)
        c  == GenExpr(s.condition, [g EXCEPT !.label_counter = @ + 2])
        g1 == emit(c.g, "IF_FALSE", c.ref, else_label, NoneVal)
        g2 == GenStmts(s.then_body, g1)
    IN  IF s.has_else /\ s.else_body # <<>>
        THEN LET g3 == emit(emit(g2, "GOTO", end_label, NoneVal, NoneVal),
                            "LABEL", else_label, NoneVal, NoneVal)
             IN  emit(GenStmts(s.else_body, g3), "LABEL", end_label, NoneVal, NoneVal)
        ELSE emit(g2, "LABEL", else_label, NoneVal, NoneVal)

GenStmt(s, g) ==
    CASE s.node = "AssignmentStatement" -> visit_assignment_statement(s, g)
      [] s.node = "PrintStatement" ->
            LET e == GenExpr(s.expression, g)
            IN  emit(e.g, "PRINT", e.ref, NoneVal, NoneVal)
      [] s.node = "ScanStatement" -> emit(g, "SCAN", NoneVal, NoneVal, s.target)
      [] s.node = "WhileStatement" -> visit_while_statement(s, g)
      [] s.node = "IfStatement" -> visit_if_statement(s, g)

GenStmts(stmts, g) ==
    IF stmts = <<>> THEN g ELSE GenStmts(Tail(stmts), GenStmt(stmts[1], g))

\* a generate() that keeps counting where the generator's last call stopped
GenerateOnKeepingCounters(g, program) == GenStmts(program, [g EXCEPT !.code = <<>>])

\* generate() on a generator in state g: the code list and both counters restart
GenerateOn(g, program) ==
    GenStmts(program, [g EXCEPT !.code = <<>>, !.temp_counter = 0, !.label_counter = 0])

generate(program) == GenerateOn(NewGenerator, program).code


-----------------------------------------------------------------------------
(* Optimizer: analyses.  Positions are the code's 0-based list indices.    *)

At(c, i) == c[i + 1]

Indices(c) == 0..(Len(c) - 1)

Args(ins) == {ins.arg1, ins.arg2}

Reads(ins, n) == \E a \in Args(ins) : Truthy(a) /\ ~is_constant(a) /\ a = n

NonDefiningOps == {"LABEL", "GOTO", "IF_FALSE", "PRINT"}

\* analyze_code(): variable_usage (variable_defs is written but never read)
analyze_code(c) ==
    LET defs == {At(c, i).result : i \in {j \in Indices(c) :
                    Truthy(At(c, j).result) /\ At(c, j).operation \notin NonDefiningOps}}
        used == {a \in UNION {Args(At(c, i)) : i \in Indices(c)} :
                    Truthy(a) /\ ~is_constant(a)}
    IN  [n \in defs \cup used |-> {i \in Indices(c) : Reads(At(c, i), n)}]

is_variable_used_later(usage, pos, variable) ==
    /\ variable \in DOMAIN usage
    /\ \E u \in usage[variable] : u > pos

NoParent == -1

\* the labels dict: the last LABEL of a name wins
LabelIndex(c, name) ==
    LET at == {i \in Indices(c) : At(c, i).operation = "LABEL" /\ At(c, i).arg1 = name}
    IN  IF at = {} THEN -1 ELSE CHOOSE i \in at : \A j \in at : j <= i

\* the loop record a GOTO at index i yields, or none
BackEdge(c, i) ==
    LET ins    == At(c, i)
        target == LabelIndex(c, ins.arg1)
        conds  == {j \in target..(i - 1) : At(c, j).operation = "IF_FALSE"}
    IN  IF ins.operation = "GOTO" /\ target # -1 /\ target < i /\ conds # {}
        THEN <<[start |-> target, end |-> i,
                condition |-> CHOOSE j \in conds : \A k \in conds : j <= k,
                label |-> ins.arg1, modified_vars |-> {},
                invariant_candidates |-> <<>>,
                parent |-> NoParent, children |-> <<>>]>>
        ELSE <<>>

RECURSIVE RawLoops(_, _)
RawLoops(c, i) == IF i >= Len(c) THEN <<>> ELSE BackEdge(c, i) \o RawLoops(c, i + 1)

\* list.sort(key=start): a stable insertion sort
RECURSIVE InsertByStart(_, _)
InsertByStart(sorted, l) ==
    IF sorted = <<>> THEN <<l>>
    ELSE IF sorted[Len(sorted)].start <= l.start THEN Append(sorted, l)
    ELSE Append(InsertByStart(SubSeq(sorted, 1, Len(sorted) - 1), l), sorted[Len(sorted)])

RECURSIVE SortByStart(_)
SortByStart(ls) ==
    IF ls = <<>> THEN <<>>
    ELSE InsertByStart(SortByStart(SubSeq(ls, 1, Len(ls) - 1)), ls[Len(ls)])

LoopContains(a, b) == a.start < b.start /\ a.end > b.end

RECURSIVE ContainedFrom(_, _, _)
ContainedFrom(ls, i, j) ==
    IF j >= Len(ls) THEN <<>>
    ELSE (IF j # i /\ LoopContains(At(ls, i), At(ls, j)) THEN <<j>> ELSE <<>>)
         \o ContainedFrom(ls, i, j + 1)

\* one iteration of "for i, loop in enumerate(loops)" of the nesting pass:
\* loop i's own parent and children are reset, then its contained loops linked
NestIteration(ls, i) ==
    [k \in 1..Len(ls) |->
        IF k - 1 = i
        THEN [ls[k] EXCEPT !.parent = NoParent, !.children = ContainedFrom(ls, i, 0)]
        ELSE IF LoopContains(At(ls, i), ls[k]) THEN [ls[k] EXCEPT !.parent = i]
        ELSE ls[k]]

RECURSIVE IdentifyNested(_, _)
IdentifyNested(ls, i) ==
    IF i >= Len(ls) THEN ls ELSE IdentifyNested(NestIteration(ls, i), i + 1)

ModifiedVars(c, l) ==
    {At(c, i).result : i \in {j \in l.start..l.end :
        Truthy(At(c, j).result) /\ At(c, j).operation \notin {"LABEL", "GOTO", "IF_FALSE"}}}

find_loops(c) ==
    LET nested == IdentifyNested(SortByStart(RawLoops(c, 0)), 0)
    IN  [k \in 1..Len(nested) |->
            [nested[k] EXCEPT !.modified_vars = ModifiedVars(c, nested[k])]]

ArithOps == {"+", "-", "*", "/"}

\* the entry find_constant_assignments appends for instruction i of a loop
ConstantAssignmentAt(c, l, loop_idx, i) ==
    LET ins == At(c, i)
    IN  IF ins.operation = "ASSIGN" /\ is_constant(ins.arg1)
        THEN IF \E j \in (i + 1)..l.end :
                   At(c, j).operation = "IF_FALSE" /\ Contains(ins.result, At(c, j).arg1)
             THEN <<>>
             ELSE <<[position |-> i, loop_idx |-> loop_idx, result |-> ins.result]>>
        ELSE IF ins.operation \in ArithOps /\ is_constant(ins.arg1) /\ is_constant(ins.arg2)
        THEN LET users == {j \in (i + 1)..(l.end - 1) :
                              At(c, j).operation = "ASSIGN" /\ At(c, j).arg1 = ins.result}
             IN  IF users = {} THEN <<>>
                 ELSE LET j == CHOOSE u \in users : \A v \in users : u <= v
                      IN  <<[position |-> j, loop_idx |-> loop_idx,
                             result |-> At(c, j).result]>>
        ELSE <<>>

RECURSIVE ConstantAssignmentsIn(_, _, _, _)
ConstantAssignmentsIn(c, l, loop_idx, i) ==
    IF i >= l.end THEN <<>>
    ELSE ConstantAssignmentAt(c, l, loop_idx, i) \o ConstantAssignmentsIn(c, l, loop_idx, i + 1)

RECURSIVE ConstantAssignmentsFrom(_, _, _)
ConstantAssignmentsFrom(c, ls, loop_idx) ==
    IF loop_idx >= Len(ls) THEN <<>>
    ELSE ConstantAssignmentsIn(c, At(ls, loop_idx), loop_idx, At(ls, loop_idx).start + 1)
         \o ConstantAssignmentsFrom(c, ls, loop_idx + 1)

find_constant_assignments(c, ls) == ConstantAssignmentsFrom(c, ls, 0)

-----------------------------------------------------------------------------
(* Optimizer: rewrite primitives *)

ReplaceAt(c, pos, ins) == [c EXCEPT ![pos + 1] = ins]

DeleteAt(c, pos) == SubSeq(c, 1, pos) \o SubSeq(c, pos + 2, Len(c))

\* list.insert(pos, ins): an index past the end appends
InsertAt(c, pos, ins) ==
    LET p == IF pos > Len(c) THEN Len(c) ELSE pos
    IN  SubSeq(c, 1, p) \o <<ins>> \o SubSeq(c, p + 1, Len(c))

Foldable(ins) ==
    ins.operation \in ArithOps /\ is_constant(ins.arg1) /\ is_constant(ins.arg2)

apply_constant_folding(c, pos) ==
    IF pos >= Len(c) THEN c
    ELSE LET ins  == At(c, pos)
             val1 == float(ins.arg1)
             val2 == float(ins.arg2)
         IN  IF ~Foldable(ins) THEN c
             \* float() of a quoted string raises ValueError: the original is returned
             ELSE IF val1.k = "error" \/ val2.k = "error" THEN c
             ELSE IF ins.operation = "/" /\ val2.k = "fin" /\ val2.num = 0 THEN c
             ELSE LET result == FloatArith(ins.operation, val1, val2)
                  IN  \* int(inf) and int(nan) raise: the original is returned
                      IF result.k # "fin" THEN c
                      ELSE ReplaceAt(c, pos, ThreeAddressCode("ASSIGN",
                              IF result.den = 1 THEN IntStr(result.num) ELSE FloatStr(result),
                              NoneVal, ins.result))

SideEffectOps == {"PRINT", "SCAN", "LABEL", "GOTO", "IF_FALSE"}

apply_dead_code_elimination(c, usage, pos) ==
    IF pos >= Len(c) THEN c
    ELSE LET ins == At(c, pos)
         IN  IF ins.operation \in SideEffectOps THEN c
             ELSE IF Truthy(ins.result) /\ is_variable_used_later(usage, pos, ins.result) THEN c
             ELSE DeleteAt(c, pos)

\* the first earlier instruction with the same operation and operands whose
\* result is not redefined in between supplies the value
apply_common_subexpression_elimination(c, pos) ==
    IF pos >= Len(c) THEN c
    ELSE LET current == At(c, pos)
             reusable == {i \in 0..(pos - 1) :
                            /\ At(c, i).operation = current.operation
                            /\ At(c, i).arg1 = current.arg1
                            /\ At(c, i).arg2 = current.arg2
                            /\ Truthy(At(c, i).result)
                            /\ ~\E j \in (i + 1)..(pos - 1) : At(c, j).result = At(c, i).result}
         IN  IF reusable = {} THEN c
             ELSE LET i == CHOOSE m \in reusable : \A n \in reusable : m <= n
                  IN  ReplaceAt(c, pos, ThreeAddressCode("ASSIGN", At(c, i).result,
                                                        NoneVal, current.result))

\* is_constant(value) and try_parse_float(value) == 2
IsTwo(value) == is_constant(value) /\ float(value) = Fin(2, 1)

apply_strength_reduction(c, pos) ==
    IF pos >= Len(c) THEN c
    ELSE LET ins == At(c, pos)
         IN  IF ins.operation # "*" THEN c
             ELSE IF IsTwo(ins.arg2)
             THEN ReplaceAt(c, pos, ThreeAddressCode("+", ins.arg1, ins.arg1, ins.result))
             ELSE IF IsTwo(ins.arg1)
             THEN ReplaceAt(c, pos, ThreeAddressCode("+", ins.arg2, ins.arg2, ins.result))
             ELSE c

RECURSIVE OutermostLoop(_, _)
OutermostLoop(ls, idx) ==
    IF At(ls, idx).parent = NoParent THEN idx ELSE OutermostLoop(ls, At(ls, idx).parent)

apply_loop_invariant_motion(c, pos, loop_idx, ls) ==
    IF pos >= Len(c) \/ loop_idx >= Len(ls) THEN c
    ELSE InsertAt(DeleteAt(c, pos), At(ls, OutermostLoop(ls, loop_idx)).start, At(c, pos))


-----------------------------------------------------------------------------
(* Optimizer: the control-flow repair pass, one activation at a time *)

FirstGotoAfter(c, i) ==
    LET gs == {j \in (i + 1)..(Len(c) - 1) : At(c, j).operation = "GOTO"}
    IN  IF gs = {} THEN -1 ELSE CHOOSE j \in gs : \A k \in gs : j <= k

\* the loop variable searched downwards from loop_end to i + 1, or None
LoopVar(c, i, loop_end) ==
    LET ps == {j \in (i + 1)..loop_end :
                  At(c, j).operation = "+" /\ Truthy(At(c, j).result)}
    IN  IF ps = {} THEN NoneVal
        ELSE At(c, CHOOSE j \in ps : \A k \in ps : k <= j).arg1

\* an IF_FALSE at i on which the first loop of the pass re-applies the pass
UndefinedCondition(c, i) ==
    /\ At(c, i).operation = "IF_FALSE"
    /\ ~\E j \in 0..(i - 1) : At(c, j).result = At(c, i).arg1
    /\ FirstGotoAfter(c, i) # -1
    /\ Truthy(LoopVar(c, i, FirstGotoAfter(c, i)))

LoopIncrement(c, i) ==
    LET ins == At(c, i)
    IN  /\ ins.operation = "+"
        /\ Truthy(ins.result)
        /\ StartsWith(ins.result, <<"t">>)
        /\ ins.arg1 \in {<<"i">>, <<"j">>}
        /\ ins.arg2 = <<"1", ".", "0">>

\* one activation of fix_loop_control_flow: the sequence it returns or passes
\* to its recursive call, and whether it makes that call
fix_loop_control_flow(c) ==
    LET conds == {i \in Indices(c) : UndefinedCondition(c, i)}
        incs  == {i \in Indices(c) : LoopIncrement(c, i)}
    IN  IF conds # {}
        THEN LET i == CHOOSE m \in conds : \A n \in conds : m <= n
                 loop_var == LoopVar(c, i, FirstGotoAfter(c, i))
                 cond == ThreeAddressCode("<", loop_var, <<"2", ".", "0">>, At(c, i).arg1)
             IN  [code  |-> IF Contains(<<"j">>, loop_var) \/ Contains(<<"i">>, loop_var)
                            THEN InsertAt(c, i, cond) ELSE c,
                  again |-> TRUE]
        ELSE IF incs # {}
        THEN LET i == CHOOSE m \in incs : \A n \in incs : m <= n
                 ins == At(c, i)
             IN  [code  |-> InsertAt(
                                ReplaceAt(c, i, ThreeAddressCode("ASSIGN", ins.result, NoneVal, ins.arg1)),
                                i + 1,
                                ThreeAddressCode("=", ins.arg1, NoneVal, ins.arg1)),
                  again |-> TRUE]
        ELSE [code |-> c, again |-> FALSE]

-----------------------------------------------------------------------------
(* Optimizer: the driver's passes *)

\* f"Applied {pass} at position {pos} (reward: {reward:.2f})"
LogEntry(pass, pos, reward) ==
    <<"Applied ", pass, " at position ">> \o NatStr(pos) \o <<" (reward: ", reward, ")">>

\* first pass, positions pos..len-1: the code and the log entries added
RECURSIVE FoldFrom(_, _)
FoldFrom(c, pos) ==
    IF pos >= Len(c) THEN [code |-> c, log |-> <<>>]
    ELSE LET new_code == IF Foldable(At(c, pos)) THEN apply_constant_folding(c, pos) ELSE c
             rest == FoldFrom(new_code, pos + 1)
         IN  IF new_code # c
             THEN [rest EXCEPT !.log = <<LogEntry("constant_folding", pos, "15.00")>> \o @]
             ELSE rest

\* a variant of the pass that leaves its loop after the first instruction folded
RECURSIVE FoldFirstFrom(_, _)
FoldFirstFrom(c, pos) ==
    IF pos >= Len(c) THEN [code |-> c, log |-> <<>>]
    ELSE LET new_code == IF Foldable(At(c, pos)) THEN apply_constant_folding(c, pos) ELSE c
         IN  IF new_code # c
             THEN [code |-> new_code, log |-> <<LogEntry("constant_folding", pos, "15.00")>>]
             ELSE FoldFirstFrom(c, pos + 1)

ConstantFoldingUntilFirstChange(c) == FoldFirstFrom(c, 0)

ConstantFoldingPass(c) == FoldFrom(c, 0)

\* third pass from a position on; usage is self.variable_usage, re-analysed
\* after every deletion; removed lists what was deleted and where, as the log
\* entries name it
RECURSIVE DeadCodeFrom(_, _, _)
DeadCodeFrom(c, usage, pos) ==
    IF pos >= Len(c) THEN [code |-> c, log |-> <<>>, usage |-> usage, removed |-> <<>>]
    ELSE LET ins   == At(c, pos)
             new_code ==
                IF /\ Truthy(ins.result)
                   /\ ~is_variable_used_later(usage, pos, ins.result)
                   /\ ins.operation \notin SideEffectOps
                THEN apply_dead_code_elimination(c, usage, pos) ELSE c
         IN  IF Len(new_code) # Len(c)
             THEN LET rest == DeadCodeFrom(new_code, analyze_code(new_code), pos)
                  IN  [rest EXCEPT
                         !.log = <<LogEntry("dead_code_elimination", pos, "25.00")>> \o @,
                         !.removed = <<[instr |-> ins, position |-> pos]>> \o @]
             ELSE DeadCodeFrom(c, usage, pos + 1)

DeadCodePass(c, usage) == DeadCodeFrom(c, usage, 0)

\* a value computed once and handed to what follows it
After(v, rest(_)) == CHOOSE out \in {rest(x) : x \in {v}} : TRUE

\* optimize(): the second pass from an entry of the list it started with
RECURSIVE MotionFrom(_, _)
MotionFrom(st, k) ==
    IF k >= Len(st.worklist) THEN st
    ELSE After(apply_loop_invariant_motion(st.code, At(st.worklist, k).position,
                                           At(st.worklist, k).loop_idx, st.loops),
               LAMBDA new_code :
                   IF new_code = st.code THEN MotionFrom(st, k + 1)
                   ELSE After([st EXCEPT
                                  !.code = new_code,
                                  !.log = Append(@, LogEntry("loop_invariant_motion",
                                                             At(st.worklist, k).position,
                                                             "30.00")),
                                  !.usage = analyze_code(new_code),
                                  !.loops = find_loops(new_code)],
                              LAMBDA moved : MotionFrom(moved, k + 1)))

\* the repair pass with its calls to itself; failed is the unbounded recursion
RECURSIVE Repair(_)
Repair(c) ==
    After(fix_loop_control_flow(c),
          LAMBDA r :
              IF ~r.again THEN [code |-> r.code, failed |-> FALSE]
              ELSE IF r.code = c THEN [code |-> c, failed |-> TRUE]
              ELSE Repair(r.code))

\* the second pass on the result of the first: the analyses it starts from
MotionPass(fold) ==
    After(find_loops(fold.code),
          LAMBDA ls :
              MotionFrom([code |-> fold.code, log |-> fold.log,
                          usage |-> analyze_code(fold.code), loops |-> ls,
                          worklist |-> find_constant_assignments(fold.code, ls)], 0))

\* optimize(): the four passes in a row
optimize(c) ==
    After(MotionPass(ConstantFoldingPass(c)),
          LAMBDA moved :
              After(DeadCodePass(moved.code, moved.usage),
                    LAMBDA dead :
                        After(Repair(dead.code),
                              LAMBDA repair :
                                  [code |-> repair.code, log |-> moved.log \o dead.log,
                                   failed |-> repair.failed])))


-----------------------------------------------------------------------------
(* Optimizer: the Q-learning policy infrastructure *)

\* the empty dict an action carries when no loop_info is given
NoLoopInfo == <<>>

OptimizationAction(type, pos, confidence) ==
    [type |-> type, position |-> pos, confidence |-> confidence, loop_info |-> NoLoopInfo]

learning_rate == Fin(1, 10)

discount_factor == Fin(9, 10)

\* "_".join(context) of the opcode and its neighbours' opcodes
get_state_key(c, pos) ==
    IF pos >= Len(c) THEN <<"END">>
    ELSE <<At(c, pos).operation>>
         \o (IF pos > 0 THEN <<"_", "prev_", At(c, pos - 1).operation>> ELSE <<>>)
         \o (IF pos < Len(c) - 1 THEN <<"_", "next_", At(c, pos + 1).operation>> ELSE <<>>)

\* f"{action.type}_{action.position}"
ActionKey(a) == <<a.type, "_">> \o NatStr(a.position)

\* dict.get(action_key, 0.0) of the row of a state
QValue(q, state, key) ==
    IF state \in DOMAIN q /\ key \in DOMAIN q[state] THEN q[state][key] ELSE Fin(0, 1)

FloatLeq(a, b) == a.num * b.den <= b.num * a.den

\* max(row.values())
MaxValue(row) ==
    CHOOSE v \in {row[k] : k \in DOMAIN row} :
        \A w \in {row[k] : k \in DOMAIN row} : FloatLeq(w, v)

\* the new value a forgetful variant stores: the learning rate is left out
NewQUnscaled(current_q, reward, max_next_q) ==
    FloatArith("+", current_q,
        FloatArith("-", FloatArith("+", reward, FloatArith("*", discount_factor, max_next_q)),
                   current_q))

\* new_q = current_q + learning_rate * (reward + discount_factor * max_next_q - current_q)
NewQ(current_q, reward, max_next_q) ==
    FloatArith("+", current_q,
        FloatArith("*", learning_rate,
            FloatArith("-", FloatArith("+", reward, FloatArith("*", discount_factor, max_next_q)),
                       current_q)))

\* update_q_value: the table and the action object after the call
update_q_value(q, state, a, reward, next_state) ==
    LET q1 == [s \in DOMAIN q \cup {state} |-> IF s \in DOMAIN q THEN q[s] ELSE <<>>]
        action_key == ActionKey(a)
        current_q  == QValue(q1, state, action_key)
        max_next_q == IF next_state \in DOMAIN q1 /\ DOMAIN q1[next_state] # {}
                      THEN MaxValue(q1[next_state]) ELSE Fin(0, 1)
        new_q == NewQ(current_q, reward, max_next_q)
        row   == [k \in DOMAIN q1[state] \cup {action_key} |->
                     IF k = action_key THEN new_q ELSE q1[state][k]]
    IN  [q_table |-> [q1 EXCEPT ![state] = row],
         action  |-> [a EXCEPT !.confidence = new_q]]

\* the actions the exploit loop can end with: the first one whose learned value
\* exceeds every earlier one's and is not exceeded later; the loop starts from
\* float('-inf'), which every stored value exceeds
BestActions(q, state, actions) ==
    {k \in DOMAIN actions :
        /\ \A j \in 1..(k - 1) : ~FloatLeq(QValue(q, state, ActionKey(actions[k])),
                                            QValue(q, state, ActionKey(actions[j])))
        /\ \A j \in DOMAIN actions : FloatLeq(QValue(q, state, ActionKey(actions[j])),
                                             QValue(q, state, ActionKey(actions[k])))}

\* choose_action: the table after the call and the values it can return; a
\* result is <<>> for None and <<action>> otherwise
choose_action(q, state, actions, explore) ==
    IF actions = <<>> THEN [q_table |-> q, results |-> {<<>>}]
    ELSE LET q1   == [s \in DOMAIN q \cup {state} |-> IF s \in DOMAIN q THEN q[s] ELSE <<>>]
             any  == {<<actions[k]>> : k \in DOMAIN actions}
             best == BestActions(q1, state, actions)
         IN  [q_table |-> q1,
              results |-> IF explore \/ best = {} THEN any
                          ELSE {<<actions[k]>> : k \in best}]

\* the outermost enclosing loop, among the loops listed earlier, whose
\* modified variables the instruction does not read
OutermostInvariantLoop(ls, loop_idx, current) ==
    LET outer == {j \in 0..(loop_idx - 1) :
                    /\ At(ls, j).start <= At(ls, loop_idx).start
                    /\ At(ls, j).end >= At(ls, loop_idx).end
                    /\ ~\E arg \in {current.arg1, current.arg2} :
                          /\ Truthy(arg) /\ IsStr(arg) /\ ~is_constant(arg)
                          /\ arg \in At(ls, j).modified_vars}
    IN  IF outer = {} THEN loop_idx ELSE CHOOSE j \in outer : \A k \in outer : k <= j

\* get_possible_actions: the list of actions offered at a position
get_possible_actions(c, usage, pos, ls) ==
    IF pos >= Len(c) THEN <<>>
    ELSE LET current == At(c, pos)
             binary  == current.operation \in ArithOps
                          /\ Truthy(current.arg1) /\ Truthy(current.arg2)
             folding == IF binary /\ is_constant(current.arg1) /\ is_constant(current.arg2)
                        THEN <<OptimizationAction("constant_folding", pos, Fin(4, 5))>>
                        ELSE <<>>
             dead    == IF /\ Truthy(current.result)
                           /\ ~is_variable_used_later(usage, pos, current.result)
                           /\ current.operation \notin {"PRINT", "SCAN"}
                        THEN <<OptimizationAction("dead_code_elimination", pos, Fin(7, 10))>>
                        ELSE <<>>
             cse     == IF binary /\ \E i \in 0..(pos - 1) :
                                        /\ At(c, i).operation = current.operation
                                        /\ At(c, i).arg1 = current.arg1
                                        /\ At(c, i).arg2 = current.arg2
                                        /\ Truthy(At(c, i).result)
                        THEN <<OptimizationAction("common_subexpression", pos, Fin(3, 5))>>
                        ELSE <<>>
             strength == IF /\ current.operation = "*"
                            /\ Truthy(current.arg1) /\ Truthy(current.arg2)
                            /\ (IsTwo(current.arg1) \/ IsTwo(current.arg2))
                         THEN <<OptimizationAction("strength_reduction", pos, Fin(1, 2))>>
                         ELSE <<>>
             holders == {l \in Indices(ls) :
                            \E k \in DOMAIN At(ls, l).invariant_candidates :
                                At(ls, l).invariant_candidates[k] = pos}
             motion  == IF holders = {} THEN <<>>
                        ELSE LET l == CHOOSE m \in holders : \A n \in holders : m <= n
                             IN  <<[OptimizationAction("loop_invariant", pos, Fin(9, 10))
                                      EXCEPT !.loop_info =
                                        [loop_idx |-> OutermostInvariantLoop(ls, l, current)]]>>
         IN  folding \o dead \o cse \o strength \o motion

\* apply_optimization: the primitive the action's type names, or the input
apply_optimization(c, usage, a, ls) ==
    IF a.type = "constant_folding" THEN apply_constant_folding(c, a.position)
    ELSE IF a.type = "dead_code_elimination"
    THEN apply_dead_code_elimination(c, usage, a.position)
    ELSE IF a.type = "common_subexpression"
    THEN apply_common_subexpression_elimination(c, a.position)
    ELSE IF a.type = "strength_reduction" THEN apply_strength_reduction(c, a.position)
    ELSE IF a.type = "loop_invariant"
    THEN apply_loop_invariant_motion(c, a.position, a.loop_info.loop_idx, ls)
    ELSE c

-----------------------------------------------------------------------------
(* Lexer, and the parser's first decisions on a token list *)

\* the letters of the sources compiled here
Letters ==
    {"a", "b", "c", "d", "e", "f", "g", "h", "i", "j", "k", "l", "m",
     "n", "o", "p", "q", "r", "s", "t", "u", "v", "w", "x", "y", "z"}

\* Lexer.keywords
Keywords ==
    (<<"p","r","i","n","t">> :> "PRINT") @@ (<<"s","c","a","n">> :> "SCAN")
    @@ (<<"w","h","i","l","e">> :> "WHILE") @@ (<<"i","f">> :> "IF")
    @@ (<<"e","l","s","e">> :> "ELSE")

\* Lexer.operators, by the TokenType's value
Operators ==
    (<<"+">> :> "PLUS") @@ (<<"-">> :> "MINUS") @@ (<<"*">> :> "MULTIPLY")
    @@ (<<"/">> :> "DIVIDE") @@ (<<"=">> :> "ASSIGN") @@ (<<"+","=">> :> "PLUS_ASSIGN")
    @@ (<<"-","=">> :> "MINUS_ASSIGN") @@ (<<"=","=">> :> "EQUAL")
    @@ (<<"!","=">> :> "NOT_EQUAL") @@ (<<">">> :> "GREATER") @@ (<<"<">> :> "LESS")
    @@ (<<">","=">> :> "GREATER_EQUAL") @@ (<<"<","=">> :> "LESS_EQUAL")
    @@ (<<"&","&">> :> "AND") @@ (<<"|","|">> :> "OR") @@ (<<"!">> :> "NOT")

\* TokenType gives RPAREN the value "RBRACE"
Delimiters ==
    ("(" :> "LPAREN") @@ (")" :> "RBRACE") @@ ("{" :> "LBRACE") @@ ("}" :> "RBRACE")
    @@ (";" :> "SEMICOLON")

\* a token, with the value of its TokenType as the stored dicts have it
Token(type, value, line, column) ==
    [type |-> type, value |-> value, line |-> line, column |-> column]

NewLexer == [position |-> 0, line |-> 1, column |-> 1, tokens |-> <<>>, error |-> NoneVal]

\* what current_char and peek_char give beyond the end
NoChar == ""

CharAt(source, p) == IF p >= Len(source) THEN NoChar ELSE At(source, p)

\* Lexer.advance
advance(source, lx) ==
    IF CharAt(source, lx.position) = "\n"
    THEN [lx EXCEPT !.line = @ + 1, !.column = 1, !.position = @ + 1]
    ELSE [lx EXCEPT !.column = @ + 1, !.position = @ + 1]

\* while self.current_char() and self.current_char() in chars: self.advance()
RECURSIVE AdvanceWhile(_, _, _)
AdvanceWhile(source, lx, chars) ==
    IF CharAt(source, lx.position) \in chars
    THEN AdvanceWhile(source, advance(source, lx), chars)
    ELSE lx

Slice(source, from, to) == SubSeq(source, from + 1, IF to > Len(source) THEN Len(source) ELSE to)

\* the scanning loop of read_string, after the opening quote
RECURSIVE StringBody(_, _)
StringBody(source, lx) ==
    LET ch == CharAt(source, lx.position)
    IN  IF ch = NoChar \/ ch = Quote THEN lx
        ELSE StringBody(source,
                 advance(source, IF ch = "\\" THEN advance(source, lx) ELSE lx))

LexError(lx, msg) == [lx EXCEPT !.error = msg]

UnknownCharacter(ch, line, column) ==
    <<"Unknown character '", ch, "' at line ">> \o NatStr(line)
    \o <<", column ">> \o NatStr(column)

\* one iteration of the loop of Lexer.tokenize from a character that starts
\* neither whitespace nor the end: the lexer after it, or at the raise
LexStep(source, lx) ==
    LET ch   == CharAt(source, lx.position)
        line == lx.line
        col  == lx.column
        emit1(type, value, nxt) ==
            [nxt EXCEPT !.tokens = Append(@, Token(type, value, line, col))]
    IN  IF ch = "/" /\ CharAt(source, lx.position + 1) = "/"
        THEN AdvanceWhile(source, lx, {source[k] : k \in 1..Len(source)} \ {"\n"})
        ELSE IF ch = "\n"
        THEN emit1("NEWLINE", <<ch>>, advance(source, lx))
        ELSE IF IsDigit(ch)
        THEN LET nxt == AdvanceWhile(source, lx, {DigitChars[d] : d \in 1..10} \cup {"."})
             IN  emit1("NUMBER", Slice(source, lx.position, nxt.position), nxt)
        ELSE IF ch = Quote
        THEN LET body == StringBody(source, advance(source, lx))
             IN  IF CharAt(source, body.position) = NoChar
                 THEN LexError(body, <<"Unterminated string at line ">> \o NatStr(body.line))
                 ELSE emit1("STRING", Slice(source, lx.position + 1, body.position),
                            advance(source, body))
        ELSE IF ch \in Letters \cup {"_"}
        THEN LET nxt   == AdvanceWhile(source, lx,
                              Letters \cup {"_"} \cup {DigitChars[d] : d \in 1..10})
                 value == Slice(source, lx.position, nxt.position)
             IN  emit1(IF value \in DOMAIN Keywords THEN Keywords[value] ELSE "IDENTIFIER",
                       value, nxt)
        ELSE IF ch \in {"+", "-", "=", "!", ">", "<", "&", "|"}
        THEN LET nc       == CharAt(source, lx.position + 1)
                 two_char == IF nc = NoChar THEN <<ch>> ELSE <<ch, nc>>
             IN  IF two_char \in DOMAIN Operators
                 THEN emit1(Operators[two_char], two_char, advance(source, advance(source, lx)))
                 ELSE IF <<ch>> \in DOMAIN Operators
                 THEN emit1(Operators[<<ch>>], <<ch>>, advance(source, lx))
                 ELSE LexError(lx, UnknownCharacter(ch, line, col))
        ELSE IF ch \in DOMAIN Delimiters
        THEN emit1(Delimiters[ch], <<ch>>, advance(source, lx))
        ELSE IF ch \in {"*", "/"}
        THEN emit1(Operators[<<ch>>], <<ch>>, advance(source, lx))
        ELSE LexError(lx, UnknownCharacter(ch, line, col))

\* Lexer.tokenize: the lexer after the loop and the EOF token, or at the raise
RECURSIVE LexFrom(_, _)
LexFrom(source, lx0) ==
    LET lx == AdvanceWhile(source, lx0, {" ", "\t", "\r"})
    IN  IF lx0.error # NoneVal THEN lx0
        ELSE IF lx0.position >= Len(source) \/ CharAt(source, lx.position) = NoChar
        THEN [lx EXCEPT !.tokens = Append(@, Token("EOF", <<>>, lx.line, lx.column))]
        ELSE LexFrom(source, LexStep(source, lx))

tokenize(source) == LexFrom(source, NewLexer)

\* skip_newlines
RECURSIVE SkipNewlines(_, _)
SkipNewlines(tokens, p) ==
    IF p < Len(tokens) /\ At(tokens, p).type = "NEWLINE" THEN SkipNewlines(tokens, p + 1) ELSE p

TokenTypeName(t) == <<"TokenType.", IF t = "RBRACE" THEN "RPAREN" ELSE t>>

\* the ParseError of the first statement, as far as its first two tokens decide
\* it; None where they do not
FirstParseError(tokens) ==
    LET p   == SkipNewlines(tokens, 0)
        cur == At(tokens, p)
        nxt == At(tokens, IF p + 1 < Len(tokens) THEN p + 1 ELSE Len(tokens) - 1)
    IN  IF cur.type \in {"PRINT", "SCAN", "WHILE", "IF", "EOF", "NEWLINE"} THEN NoneVal
        ELSE IF cur.type = "IDENTIFIER"
        THEN IF nxt.type \in {"ASSIGN", "PLUS_ASSIGN", "MINUS_ASSIGN"} THEN NoneVal
             ELSE <<"Expected assignment operator at line ">> \o NatStr(nxt.line)
        ELSE <<"Unexpected token ">> \o TokenTypeName(cur.type)
             \o <<" at line ">> \o NatStr(cur.line)

-----------------------------------------------------------------------------
(* Source text of a program: the text whose parse the program is *)

OpChars(op) ==
    CASE op = "+=" -> <<"+", "=">> [] op = "-=" -> <<"-", "=">>
      [] op = "==" -> <<"=", "=">> [] op = "!=" -> <<"!", "=">>
      [] op = ">=" -> <<">", "=">> [] op = "<=" -> <<"<", "=">>
      [] op = "&&" -> <<"&", "&">> [] op = "||" -> <<"|", "|">>
      [] OTHER -> <<op>>

RECURSIVE ExprSource(_)
ExprSource(e) ==
    CASE e.node = "NumberLiteral" -> NatStr(e.value)
      [] e.node = "StringLiteral" -> <<Quote>> \o e.text \o <<Quote>>
      [] e.node = "Identifier" -> e.name
      [] e.node = "BinaryOperation" ->
            <<"(">> \o ExprSource(e.left) \o <<" ">> \o OpChars(e.operator) \o <<" ">>
            \o ExprSource(e.right) \o <<")">>
      [] e.node = "UnaryOperation" -> OpChars(e.operator) \o ExprSource(e.operand)

RECURSIVE SourceOf(_)
StmtSource(s) ==
    CASE s.node = "AssignmentStatement" ->
            s.target \o <<" ">> \o OpChars(s.operator) \o <<" ">> \o ExprSource(s.value) \o <<";">>
      [] s.node = "PrintStatement" ->
            <<"p","r","i","n","t","(">> \o ExprSource(s.expression) \o <<")", ";">>
      [] s.node = "ScanStatement" -> <<"s","c","a","n","(">> \o s.target \o <<")", ";">>
      [] s.node = "WhileStatement" ->
            <<"w","h","i","l","e"," ","(">> \o ExprSource(s.condition) \o <<")"," ","{","\n">>
            \o SourceOf(s.body) \o <<"}">>
      [] s.node = "IfStatement" ->
            <<"i","f"," ","(">> \o ExprSource(s.condition) \o <<")"," ","{","\n">>
            \o SourceOf(s.then_body) \o <<"}">>
            \o (IF s.has_else
                THEN <<" ","e","l","s","e"," ","{","\n">> \o SourceOf(s.else_body) \o <<"}">>
                ELSE <<>>)

\* one statement a line
SourceOf(stmts) ==
    IF stmts = <<>> THEN <<>> ELSE StmtSource(stmts[1]) \o <<"\n">> \o SourceOf(Tail(stmts))

-----------------------------------------------------------------------------
(* Parser: recursive descent over the token list; a result carries the error
   raised (None if none), the parser's position and the value returned *)

current_token(tokens, pos) ==
    IF pos >= Len(tokens) THEN tokens[Len(tokens)] ELSE At(tokens, pos)

\* Parser.advance
NextPosition(tokens, pos) == IF pos < Len(tokens) - 1 THEN pos + 1 ELSE pos

Parsed(pos, value) == [error |-> NoneVal, position |-> pos, value |-> value]

ParseError(message, tokens, pos) ==
    [error |-> message \o <<" at line ">> \o NatStr(current_token(tokens, pos).line),
     position |-> pos, value |-> <<>>]

UnexpectedToken(tokens, pos) ==
    ParseError(<<"Unexpected token ">> \o TokenTypeName(current_token(tokens, pos).type),
               tokens, pos)

\* consume with the default message; the value is the token consumed
consume(tokens, pos, token_type) ==
    IF current_token(tokens, pos).type = token_type
    THEN Parsed(NextPosition(tokens, pos), current_token(tokens, pos))
    ELSE ParseError(<<"Expected ">> \o TokenTypeName(token_type) \o <<", got ">>
                    \o TokenTypeName(current_token(tokens, pos).type), tokens, pos)

\* the operator an operator token's value spells
OperatorOf(value) ==
    IF Len(value) = 1 THEN value[1]
    ELSE CHOOSE op \in {"+=", "-=", "==", "!=", ">=", "<=", "&&", "||"} : OpChars(op) = value

\* a table in which the additive operators bind tighter than the multiplicative
LevelTypesAdditiveTightest(level) ==
    CASE level = 1 -> {"OR"}
      [] level = 2 -> {"AND"}
      [] level = 3 -> {"EQUAL", "NOT_EQUAL"}
      [] level = 4 -> {"GREATER", "LESS", "GREATER_EQUAL", "LESS_EQUAL"}
      [] level = 5 -> {"MULTIPLY", "DIVIDE"}
      [] level = 6 -> {"PLUS", "MINUS"}

\* the token types of the binary levels, loosest first: parse_logical_or,
\* parse_logical_and, parse_equality, parse_comparison, parse_addition,
\* parse_multiplication
LevelTypes(level) ==
    CASE level = 1 -> {"OR"}
      [] level = 2 -> {"AND"}
      [] level = 3 -> {"EQUAL", "NOT_EQUAL"}
      [] level = 4 -> {"GREATER", "LESS", "GREATER_EQUAL", "LESS_EQUAL"}
      [] level = 5 -> {"PLUS", "MINUS"}
      [] level = 6 -> {"MULTIPLY", "DIVIDE"}

\* r; rest(r): a call that raises ends the method, otherwise the statements after
\* it run on its result.  The result is computed once and handed on as a value.
Then(r, rest(_)) ==
    CHOOSE out \in {IF x.error # NoneVal THEN x ELSE rest(x) : x \in {r}} : TRUE

RECURSIVE parse_level(_, _, _), LevelLoop(_, _, _, _), parse_unary(_, _), parse_primary(_, _)

\* the operand parser of a level: the next tighter level, parse_unary below
LevelOperand(tokens, pos, level) ==
    IF level = 6 THEN parse_unary(tokens, pos) ELSE parse_level(tokens, pos, level + 1)

\* the while loop of a binary level: expr = BinaryOperation(expr, operator, right)
LevelLoop(tokens, pos, level, expr) ==
    IF current_token(tokens, pos).type \notin LevelTypes(level) THEN Parsed(pos, expr)
    ELSE Then(LevelOperand(tokens, NextPosition(tokens, pos), level),
              LAMBDA right :
                  LevelLoop(tokens, right.position, level,
                            BinaryOperation(expr, OperatorOf(current_token(tokens, pos).value),
                                            right.value)))

parse_level(tokens, pos, level) ==
    Then(LevelOperand(tokens, pos, level),
         LAMBDA left : LevelLoop(tokens, left.position, level, left.value))

parse_expression(tokens, pos) == parse_level(tokens, pos, 1)

parse_unary(tokens, pos) ==
    IF current_token(tokens, pos).type \in {"NOT", "MINUS"}
    THEN Then(parse_unary(tokens, NextPosition(tokens, pos)),
              LAMBDA operand :
                  Parsed(operand.position,
                         UnaryOperation(OperatorOf(current_token(tokens, pos).value),
                                        operand.value)))
    ELSE parse_primary(tokens, pos)

\* NumberLiteral(float(value)): programs hold whole numbers as integers
parse_primary(tokens, pos) ==
    LET cur == current_token(tokens, pos)
    IN  CASE cur.type = "NUMBER" ->
              Parsed(NextPosition(tokens, pos),
                     NumberLiteral(IF float(cur.value).den = 1 THEN float(cur.value).num
                                   ELSE float(cur.value)))
          [] cur.type = "STRING" -> Parsed(NextPosition(tokens, pos), StringLiteral(cur.value))
          [] cur.type = "IDENTIFIER" -> Parsed(NextPosition(tokens, pos), Identifier(cur.value))
          [] cur.type = "LPAREN" ->
              Then(parse_expression(tokens, NextPosition(tokens, pos)),
                   LAMBDA expr :
                       Then(consume(tokens, expr.position, "RBRACE"),
                            LAMBDA close : Parsed(close.position, expr.value)))
          [] OTHER -> UnexpectedToken(tokens, pos)

\* consume(first); consume(LPAREN): the position after both, or the error
OpenCall(tokens, pos, first) ==
    Then(consume(tokens, pos, first),
         LAMBDA head : consume(tokens, head.position, "LPAREN"))

\* consume(RPAREN); consume(SEMICOLON), returning the statement
CloseCall(tokens, pos, stmt) ==
    Then(consume(tokens, pos, "RBRACE"),
         LAMBDA close :
             Then(consume(tokens, close.position, "SEMICOLON"),
                  LAMBDA semi : Parsed(semi.position, stmt)))

parse_print_statement(tokens, pos) ==
    Then(OpenCall(tokens, pos, "PRINT"),
         LAMBDA open :
             Then(parse_expression(tokens, open.position),
                  LAMBDA expr : CloseCall(tokens, expr.position, PrintStatement(expr.value))))

parse_scan_statement(tokens, pos) ==
    Then(OpenCall(tokens, pos, "SCAN"),
         LAMBDA open :
             Then(consume(tokens, open.position, "IDENTIFIER"),
                  LAMBDA target :
                      CloseCall(tokens, target.position, ScanStatement(target.value.value))))

\* the operator token is read after the target; any other token raises
AssignmentFrom(tokens, target) ==
    LET op == current_token(tokens, target.position)
    IN  IF op.type \notin {"ASSIGN", "PLUS_ASSIGN", "MINUS_ASSIGN"}
        THEN [error |-> <<"Expected assignment operator at line ">> \o NatStr(op.line),
              position |-> target.position, value |-> <<>>]
        ELSE Then(parse_expression(tokens, NextPosition(tokens, target.position)),
                  LAMBDA value :
                      Then(consume(tokens, value.position, "SEMICOLON"),
                           LAMBDA semi :
                               Parsed(semi.position,
                                      AssignmentStatement(target.value.value,
                                                          OperatorOf(op.value), value.value))))

parse_assignment_statement(tokens, pos) ==
    Then(consume(tokens, pos, "IDENTIFIER"), LAMBDA target : AssignmentFrom(tokens, target))

RECURSIVE parse_statement(_, _), BlockLoop(_, _, _), parse_while_statement(_, _),
          parse_if_statement(_, _)

\* the loop collecting a body: until RBRACE or EOF, parse_statement then
\* skip_newlines; the value is the list of statements
BlockLoop(tokens, pos, body) ==
    IF current_token(tokens, pos).type \in {"RBRACE", "EOF"} THEN Parsed(pos, body)
    ELSE Then(parse_statement(tokens, pos),
              LAMBDA stmt :
                  BlockLoop(tokens, SkipNewlines(tokens, stmt.position), body \o stmt.value))

\* consume(LBRACE); skip_newlines(); the body loop; consume(RBRACE)
Block(tokens, pos) ==
    Then(consume(tokens, pos, "LBRACE"),
         LAMBDA open :
             Then(BlockLoop(tokens, SkipNewlines(tokens, open.position), <<>>),
                  LAMBDA body :
                      Then(consume(tokens, body.position, "RBRACE"),
                           LAMBDA close : Parsed(close.position, body.value))))

\* consume(first); consume(LPAREN); parse_expression(); consume(RPAREN)
Condition(tokens, pos, first) ==
    Then(OpenCall(tokens, pos, first),
         LAMBDA open :
             Then(parse_expression(tokens, open.position),
                  LAMBDA expr :
                      Then(consume(tokens, expr.position, "RBRACE"),
                           LAMBDA close : Parsed(close.position, expr.value))))

parse_while_statement(tokens, pos) ==
    Then(Condition(tokens, pos, "WHILE"),
         LAMBDA condition :
             Then(Block(tokens, condition.position),
                  LAMBDA body :
                      Parsed(body.position, WhileStatement(condition.value, body.value))))

\* the else branch, read only behind an ELSE token
ElseFrom(tokens, condition, then_body) ==
    IF current_token(tokens, then_body.position).type # "ELSE"
    THEN Parsed(then_body.position,
                IfStatement(condition.value, then_body.value, FALSE, <<>>))
    ELSE Then(Block(tokens, NextPosition(tokens, then_body.position)),
              LAMBDA else_body :
                  Parsed(else_body.position,
                         IfStatement(condition.value, then_body.value, TRUE,
                                     else_body.value)))

parse_if_statement(tokens, pos) ==
    Then(Condition(tokens, pos, "IF"),
         LAMBDA condition :
             Then(Block(tokens, condition.position),
                  LAMBDA then_body : ElseFrom(tokens, condition, then_body)))

\* the statement the current token starts
StatementAt(tokens, pos, type) ==
    CASE type = "PRINT" -> parse_print_statement(tokens, pos)
      [] type = "SCAN" -> parse_scan_statement(tokens, pos)
      [] type = "WHILE" -> parse_while_statement(tokens, pos)
      [] type = "IF" -> parse_if_statement(tokens, pos)
      [] type = "IDENTIFIER" -> parse_assignment_statement(tokens, pos)
      [] OTHER -> UnexpectedToken(tokens, pos)

\* the value is <<stmt>>, or <<>> where parse_statement returns None
parse_statement(tokens, pos0) ==
    Then(Parsed(SkipNewlines(tokens, pos0), <<>>),
         LAMBDA at :
             IF current_token(tokens, at.position).type \in {"EOF", "NEWLINE"} THEN at
             ELSE Then(StatementAt(tokens, at.position,
                                   current_token(tokens, at.position).type),
                       LAMBDA stmt : Parsed(stmt.position, <<stmt.value>>)))

RECURSIVE ProgramLoop(_, _, _)
ProgramLoop(tokens, pos, statements) ==
    IF current_token(tokens, pos).type = "EOF" THEN Parsed(pos, statements)
    ELSE Then(parse_statement(tokens, pos),
              LAMBDA stmt :
                  ProgramLoop(tokens, SkipNewlines(tokens, stmt.position),
                              statements \o stmt.value))

\* Parser(tokens).parse(): the Program's statement list, or the ParseError
parse(tokens) == ProgramLoop(tokens, SkipNewlines(tokens, 0), <<>>)

-----------------------------------------------------------------------------
(* Orchestrator helpers *)

\* ast_to_dict: the serialisable tree (an else_body that is None or empty is
\* left out, which has_else records)
RECURSIVE ast_to_dict(_)
DictList(nodes) == [k \in 1..Len(nodes) |-> ast_to_dict(nodes[k])]

ast_to_dict(n) ==
    CASE n.node = "NumberLiteral" -> [type |-> n.node, value |-> n.value]
      [] n.node = "StringLiteral" -> [type |-> n.node, text |-> n.text]
      [] n.node = "Identifier" -> [type |-> n.node, name |-> n.name]
      [] n.node = "BinaryOperation" ->
            [type |-> n.node, operator |-> n.operator,
             left |-> ast_to_dict(n.left), right |-> ast_to_dict(n.right)]
      [] n.node = "UnaryOperation" ->
            [type |-> n.node, operator |-> n.operator, operand |-> ast_to_dict(n.operand)]
      [] n.node = "AssignmentStatement" ->
            [type |-> n.node, operator |-> n.operator, target |-> n.target,
             value |-> ast_to_dict(n.value)]
      [] n.node = "PrintStatement" ->
            [type |-> n.node, expression |-> ast_to_dict(n.expression)]
      [] n.node = "ScanStatement" -> [type |-> n.node, target |-> n.target]
      [] n.node = "WhileStatement" ->
            [type |-> n.node, condition |-> ast_to_dict(n.condition),
             body |-> DictList(n.body)]
      [] n.node = "IfStatement" ->
            [type |-> n.node, condition |-> ast_to_dict(n.condition),
             then_body |-> DictList(n.then_body),
             has_else |-> n.has_else /\ n.else_body # <<>>,
             else_body |-> DictList(n.else_body)]

ProgramDict(program) == <<[type |-> "Program", statements |-> DictList(program)]>>

\* DirectASTToPythonGenerator: expressions as text
RECURSIVE PyExpr(_)
PyExpr(e) ==
    CASE e.node = "NumberLiteral" -> FloatStr(Fin(e.value, 1))
      [] e.node = "StringLiteral" -> <<Quote>> \o e.text \o <<Quote>>
      [] e.node = "Identifier" -> e.name
      [] e.node = "BinaryOperation" ->
            <<"(">> \o PyExpr(e.left)
            \o <<" ", CASE e.operator = "&&" -> "and" [] e.operator = "||" -> "or"
                        [] OTHER -> e.operator, " ">>
            \o PyExpr(e.right) \o <<")">>
      [] e.node = "UnaryOperation" ->
            IF e.operator = "!" THEN <<"(", "not", " ">> \o PyExpr(e.operand) \o <<")">>
            ELSE <<"(", e.operator>> \o PyExpr(e.operand) \o <<")">>

RECURSIVE Indent(_)
Indent(level) == IF level = 0 THEN <<>> ELSE <<"    ">> \o Indent(level - 1)

\* the lines the statement visitors emit at an indent level
RECURSIVE PyStmts(_, _)
PyStmt(s, level) ==
    CASE s.node = "AssignmentStatement" ->
            IF s.operator \in {"=", "+=", "-="}
            THEN <<Indent(level) \o s.target \o <<" ", s.operator, " ">> \o PyExpr(s.value)>>
            ELSE <<>>
      [] s.node = "PrintStatement" ->
            <<Indent(level) \o <<"custom_print(">> \o PyExpr(s.expression) \o <<")">>>>
      [] s.node = "ScanStatement" ->
            <<Indent(level) \o s.target \o <<" = float(custom_input())">>>>
      [] s.node = "WhileStatement" ->
            <<Indent(level) \o <<"while", " ">> \o PyExpr(s.condition) \o <<":">>>>
            \o PyStmts(s.body, level + 1)
      [] s.node = "IfStatement" ->
            <<Indent(level) \o <<"if", " ">> \o PyExpr(s.condition) \o <<":">>>>
            \o PyStmts(s.then_body, level + 1)
            \o (IF s.has_else /\ s.else_body # <<>>
                THEN <<Indent(level) \o <<"else:">>>> \o PyStmts(s.else_body, level + 1)
                ELSE <<>>)

PyStmts(stmts, level) ==
    IF stmts = <<>> THEN <<>> ELSE PyStmt(stmts[1], level) \o PyStmts(Tail(stmts), level)

\* the fixed setup lines generate() emits before the program, one text each
PySetup ==
    << <<"# Generated Python code">>,
       <<"# Modules and variables are provided by the execution environment">>,
       <<>>,
       <<"def custom_input():">>,
       <<"    ", "global input_index">>,
       <<"    ", "if input_index < len(input_values):">>,
       <<"    ", "    ", "value = input_values[input_index]">>,
       <<"    ", "    ", "input_index += 1">>,
       <<"    ", "    ", "return value">>,
       <<"    ", "else:">>,
       <<"    ", "    ", "return '0'">>,
       <<>>,
       <<"def custom_print(value):">>,
       <<"    ", "output_buffer.write(str(value) + '\\n')">>,
       <<>>,
       <<"# Main execution">> >>

python_generate(program) ==
    Join(PySetup \o PyStmts(program, 0) \o << <<>>, <<"result = output_buffer.getvalue()">> >>)

\* the record compile_and_execute resets at the start of every call
\* (execution_time is not modelled)
EmptyData ==
    [tokens |-> <<>>, ast |-> <<>>, semantic_errors |-> <<>>, intermediate_code |-> <<>>,
     optimized_code |-> <<>>, optimization_log |-> <<>>, python_code |-> <<>>,
     output |-> <<>>, errors |-> <<>>, success |-> FALSE]

Listing(c) == [k \in 1..Len(c) |-> StrInstr(c[k])]

CompilationError(msg) == <<"Compilation Error: ">> \o msg

RecursionErrorMsg == <<"maximum recursion depth exceeded">>


-----------------------------------------------------------------------------
(* The programs compiled: the parser's output for small sources *)

vx == <<"x">>

vi == <<"i">>

vinf == <<"i", "n", "f">>

MaxLit == 2

Lit(n) == NumberLiteral(n)

\* expressions of statements outside control flow
FlatExprs ==
    {Lit(1), Identifier(vx), Identifier(vinf)}
    \cup {BinaryOperation(Lit(1), "+", Lit(b)) : b \in 0..MaxLit}
    \cup {BinaryOperation(Lit(a), "/", Lit(b)) : a \in {0, 1}, b \in {0, 2}}
    \cup {BinaryOperation(Lit(1), "/", Identifier(vx)),
          BinaryOperation(Identifier(vinf), "+", Lit(1)),
          BinaryOperation(BinaryOperation(Lit(1), "+", Lit(MaxLit)), "*", Lit(MaxLit)),
          BinaryOperation(StringLiteral(<<"s">>), "+", StringLiteral(<<"s">>)),
          UnaryOperation("-", Lit(0))}

FlatStmts ==
    {AssignmentStatement(vx, "=", e) : e \in FlatExprs}
    \cup {PrintStatement(e) : e \in FlatExprs}
    \cup {AssignmentStatement(vinf, "=", Lit(1)),
          AssignmentStatement(vx, "+=", Lit(1)),
          AssignmentStatement(vx, "-=", BinaryOperation(Identifier(vx), "*", Lit(MaxLit))),
          ScanStatement(vx)}

\* the statements that open a two-statement program
FlatFirst ==
    {AssignmentStatement(vx, "=", Lit(0)),
     AssignmentStatement(vx, "=", BinaryOperation(Lit(1), "+", Lit(MaxLit))),
     AssignmentStatement(vinf, "=", Lit(1)),
     AssignmentStatement(vx, "+=", Lit(1)),
     ScanStatement(vx)}

FlatPrograms ==
    {<<s>> : s \in FlatStmts} \cup {<<s, t>> : s \in FlatFirst, t \in FlatStmts}

\* loops: a condition, a body of up to two statements, optional code around
LoopConds ==
    {Lit(1), Identifier(vx), BinaryOperation(Identifier(vi), "<", Lit(MaxLit))}

LoopStmts ==
    {AssignmentStatement(vx, "=", BinaryOperation(Identifier(vx), "+", Lit(1))),
     AssignmentStatement(vi, "=", BinaryOperation(Identifier(vi), "+", Lit(1))),
     AssignmentStatement(vx, "=", Lit(0)),
     PrintStatement(Identifier(vx))}

LoopBodies ==
    {<<>>} \cup {<<s>> : s \in LoopStmts} \cup {<<s, t>> : s \in LoopStmts, t \in LoopStmts}

Prelude == <<AssignmentStatement(vx, "=", Lit(0)), AssignmentStatement(vi, "=", Lit(0))>>

Postludes == {<<>>, <<PrintStatement(Identifier(vi))>>}

WhilePrograms ==
    {Prelude \o <<WhileStatement(c, b)>> \o post :
        c \in LoopConds, b \in LoopBodies, post \in Postludes}

NestedPrograms ==
    {Prelude \o <<WhileStatement(c1, b1 \o <<WhileStatement(c2, b2)>> \o b3)>> :
        c1 \in LoopConds \ {Lit(1)}, c2 \in LoopConds \ {Lit(1)},
        b1 \in {<<>>, <<AssignmentStatement(vx, "=", Lit(0))>>},
        b2 \in {<<>>, <<AssignmentStatement(vx, "=", Lit(0))>>, <<PrintStatement(Identifier(vx))>>},
        b3 \in {<<>>, <<PrintStatement(Identifier(vx))>>}}

Branches ==
    {<<>>, <<PrintStatement(Identifier(vx))>>,
     <<PrintStatement(BinaryOperation(Lit(0), "-", Identifier(vx)))>>,
     <<AssignmentStatement(vx, "=", Lit(1)), PrintStatement(Identifier(vx))>>}

IfCond == BinaryOperation(Identifier(vx), ">", Lit(0))

IfPrograms ==
    {pre \o <<IfStatement(IfCond, t, TRUE, e)>> :
        pre \in {<<>>, <<ScanStatement(vx)>>}, t \in Branches, e \in Branches}
    \cup {pre \o <<IfStatement(IfCond, t, FALSE, <<>>)>> :
        pre \in {<<>>, <<ScanStatement(vx)>>}, t \in Branches}

\* x = 2; y = x + 3; print(y);
FoldingScenario ==
    <<AssignmentStatement(vx, "=", Lit(2)),
      AssignmentStatement(<<"y">>, "=", BinaryOperation(Identifier(vx), "+", Lit(3))),
      PrintStatement(Identifier(<<"y">>))>>

\* print(5 / 0);
DivisionScenario == <<PrintStatement(BinaryOperation(Lit(5), "/", Lit(0)))>>

\* a = 1; print(2);
DeadStoreScenario ==
    <<AssignmentStatement(<<"a">>, "=", Lit(1)), PrintStatement(Lit(2))>>

\* x = 0; y = x; x = 1;
DeadChainScenario ==
    <<AssignmentStatement(vx, "=", Lit(0)),
      AssignmentStatement(<<"y">>, "=", Identifier(vx)),
      AssignmentStatement(vx, "=", Lit(1))>>

ScenarioPrograms == {FoldingScenario, DivisionScenario, DeadStoreScenario, DeadChainScenario}

Programs ==
    FlatPrograms \cup WhilePrograms \cup NestedPrograms \cup IfPrograms \cup ScenarioPrograms

\* the token list of the source of each program
TokensOf == [program \in Programs |-> tokenize(SourceOf(program)).tokens]

\* sources the lexer or the parser rejects
FaultySources ==
    {<<"x", " ", "=", " ", "@", ";">>,
     <<"p", "r", "i", "n", "t", "(", Quote, "s">>,
     <<"x", " ", "=", " ", "1", ";", "\n", "x", " ", "=", " ", "x", " ", "&", " ", "1", ";">>,
     <<";", " ", "x">>,
     <<"\n", "x", " ", "1", ";">>,
     <<")", " ", "=", " ", "1", ";">>}

-----------------------------------------------------------------------------
(* The request layer: one SourceToSourceCompiler shared by the requests *)

\* the requests served at the same time
Threads == {1, 2}

\* print(1);  and  print(2 + 3);
RequestSource(t) ==
    IF t = 1 THEN <<"p", "r", "i", "n", "t", "(", "1", ")", ";">>
    ELSE <<"p", "r", "i", "n", "t", "(", "2", " ", "+", " ", "3", ")", ";">>

\* a call's local variables: tokens names the Lexer whose list the local is
\* bound to, result holds the dict returned, once the call has returned
NoCalls ==
    [t \in Threads |-> [pc |-> "reset", source_code |-> RequestSource(t), tokens |-> 0,
                        ast |-> <<>>, intermediate_code |-> <<>>, python_code |-> <<>>,
                        result |-> <<>>]]

\* SourceToSourceCompiler.__init__: the attributes name objects, compilation_data
\* a dict (dict 0 is the one built there), lexer a Lexer and parser a Parser
\* (0 is None); the objects a call makes are numbered after the call
NewCompiler ==
    [compilation_data |-> 0, lexer |-> 0, parser |-> 0, symbols |-> {},
     dicts |-> (0 :> EmptyData), lexers |-> (0 :> <<>>), parsers |-> (0 :> <<>>)]

-----------------------------------------------------------------------------
(* The orchestrator: compile_and_execute, stage by stage *)

Init ==
    /\ pc = "idle"
    /\ symbols = {}
    /\ ast = <<>>
    /\ compilation_data = EmptyData
    /\ code = <<>>
    /\ variable_usage = <<>>
    /\ optimization_log = <<>>
    /\ loops = <<>>
    /\ worklist = <<>>
    /\ position = 0
    /\ intermediate_code = <<>>
    /\ q_table = <<>>
    /\ transition = <<>>
    /\ chosen = <<>>
    /\ calls = NoCalls
    /\ instance = NewCompiler

\* the locals of a call are dropped when it returns; variable_usage is an
\* attribute, but every optimize() overwrites it before reading it
Return(data) ==
    /\ pc' = "idle"
    /\ compilation_data' = data
    /\ ast' = <<>>
    /\ code' = <<>>
    /\ variable_usage' = <<>>
    /\ optimization_log' = <<>>
    /\ loops' = <<>>
    /\ worklist' = <<>>
    /\ position' = 0
    /\ intermediate_code' = <<>>

OptimizerIdle == UNCHANGED <<code, variable_usage, optimization_log, loops, worklist, position>>

\* a call starts: the record is reset
Call ==
    /\ pc = "idle"
    /\ pc' = "parse"
    /\ compilation_data' = EmptyData
    /\ UNCHANGED <<symbols, ast, intermediate_code, q_table, transition, chosen, calls, instance>>
    /\ OptimizerIdle

\* a stage 1 that stores the tokens read before the raise
LexFailureKeepingTokens(source) ==
    /\ pc = "parse"
    /\ LET lx == tokenize(source)
       IN  /\ lx.error # NoneVal
           /\ Return([compilation_data EXCEPT !.tokens = lx.tokens,
                                             !.errors = CompilationError(lx.error),
                                             !.success = FALSE])
    /\ UNCHANGED <<symbols, q_table, transition, chosen, calls, instance>>

\* stage 1 raises SyntaxError
LexFailure(source) ==
    /\ pc = "parse"
    /\ LET lx == tokenize(source)
       IN  /\ lx.error # NoneVal
           /\ Return([compilation_data EXCEPT !.errors = CompilationError(lx.error),
                                             !.success = FALSE])
    /\ UNCHANGED <<symbols, q_table, transition, chosen, calls, instance>>

\* stage 1 delivers the tokens, stage 2 raises ParseError on the first statement
ParseFailure(source) ==
    /\ pc = "parse"
    /\ LET lx == tokenize(source)
       IN  /\ lx.error = NoneVal
           /\ FirstParseError(lx.tokens) # NoneVal
           /\ Return([compilation_data EXCEPT
                         !.tokens = lx.tokens,
                         !.errors = CompilationError(FirstParseError(lx.tokens)),
                         !.success = FALSE])
    /\ UNCHANGED <<symbols, q_table, transition, chosen, calls, instance>>

\* stages 1 and 2 deliver the tokens and the Program of the source
Parse(program) ==
    /\ pc = "parse"
    /\ pc' = "analyze"
    /\ ast' = program
    /\ compilation_data' = [compilation_data EXCEPT
                               !.tokens = TokensOf[program],
                               !.ast = ProgramDict(program)]
    /\ UNCHANGED <<symbols, intermediate_code, q_table, transition, chosen, calls, instance>>
    /\ OptimizerIdle

\* a variant that records the diagnostics and carries on to stage 4
AnalyzeWithoutReturn ==
    /\ pc = "analyze"
    /\ LET r == analyze(ast, symbols)
       IN  /\ symbols' = r.symbols
           /\ pc' = "generate"
           /\ compilation_data' = [compilation_data EXCEPT !.semantic_errors = r.errors]
           /\ UNCHANGED <<ast, intermediate_code>>
           /\ OptimizerIdle
    /\ UNCHANGED <<q_table, transition, chosen, calls, instance>>

\* stage 3, and the return on a non-empty diagnostic list
Analyze ==
    /\ pc = "analyze"
    /\ LET r == analyze(ast, symbols)
           data == [compilation_data EXCEPT !.semantic_errors = r.errors]
       IN  /\ symbols' = r.symbols
           /\ IF r.errors # <<>>
              THEN Return([data EXCEPT !.errors = Join(r.errors)])
              ELSE /\ pc' = "generate"
                   /\ compilation_data' = data
                   /\ UNCHANGED <<ast, intermediate_code>>
                   /\ OptimizerIdle
    /\ UNCHANGED <<q_table, transition, chosen, calls, instance>>

\* stage 4, and the entry of optimize(): the copy and the first analysis
Generate ==
    /\ pc = "generate"
    /\ pc' = "fold"
    /\ intermediate_code' = generate(ast)
    /\ compilation_data' =
          [compilation_data EXCEPT !.intermediate_code = Listing(intermediate_code')]
    /\ code' = intermediate_code'
    /\ variable_usage' = analyze_code(code')
    /\ UNCHANGED <<symbols, ast, optimization_log, loops, worklist, position, q_table, transition, chosen, calls, instance>>

\* a first pass that learns from what it folded: it records a reward in the Q-table
ConstantFoldingLearning ==
    /\ pc = "fold"
    /\ pc' = "licm"
    /\ LET r == ConstantFoldingPass(code)
       IN  /\ code' = r.code
           /\ optimization_log' = optimization_log \o r.log
           /\ variable_usage' = IF r.log = <<>> THEN variable_usage ELSE analyze_code(r.code)
           /\ q_table' = update_q_value(q_table, get_state_key(code, 0),
                                        OptimizationAction("constant_folding", 0, Fin(4, 5)),
                                        Fin(5 * Len(r.log), 1),
                                        get_state_key(r.code, 0)).q_table
    /\ loops' = find_loops(code')
    /\ worklist' = find_constant_assignments(code', loops')
    /\ position' = 0
    /\ UNCHANGED <<symbols, ast, compilation_data, intermediate_code, transition, chosen, calls, instance>>

\* optimize(): the first pass, then loop discovery and the candidate list
ConstantFolding ==
    /\ pc = "fold"
    /\ pc' = "licm"
    /\ LET r == ConstantFoldingPass(code)
       IN  /\ code' = r.code
           /\ optimization_log' = optimization_log \o r.log
           /\ variable_usage' = IF r.log = <<>> THEN variable_usage ELSE analyze_code(r.code)
    /\ loops' = find_loops(code')
    /\ worklist' = find_constant_assignments(code', loops')
    /\ position' = 0
    /\ UNCHANGED <<symbols, ast, compilation_data, intermediate_code, q_table, transition, chosen, calls, instance>>

\* optimize(): one iteration of the second pass over the list it started with
LoopInvariantMotion ==
    /\ pc = "licm"
    /\ position < Len(worklist)
    /\ LET ca == At(worklist, position)
           new_code == apply_loop_invariant_motion(code, ca.position, ca.loop_idx, loops)
       IN  IF new_code # code
           THEN /\ code' = new_code
                /\ optimization_log' =
                      Append(optimization_log,
                             LogEntry("loop_invariant_motion", ca.position, "30.00"))
                /\ variable_usage' = analyze_code(new_code)
                /\ loops' = find_loops(new_code)
           ELSE UNCHANGED <<code, optimization_log, variable_usage, loops>>
    /\ position' = position + 1
    /\ UNCHANGED <<pc, symbols, ast, compilation_data, worklist, intermediate_code, q_table, transition, chosen, calls, instance>>

\* optimize(): the third pass
DeadCodeElimination ==
    /\ pc = "licm"
    /\ position >= Len(worklist)
    /\ pc' = "fix"
    /\ LET r == DeadCodePass(code, variable_usage)
       IN  /\ code' = r.code
           /\ optimization_log' = optimization_log \o r.log
           /\ variable_usage' = r.usage
    /\ UNCHANGED <<symbols, ast, compilation_data, loops, worklist, position,
                   intermediate_code, q_table, transition, chosen, calls, instance>>

\* optimize(): an activation of the repair pass that calls itself again
FixRecurse ==
    /\ pc = "fix"
    /\ fix_loop_control_flow(code).again
    /\ fix_loop_control_flow(code).code # code
    /\ code' = fix_loop_control_flow(code).code
    /\ UNCHANGED <<pc, symbols, ast, compilation_data, variable_usage, optimization_log,
                   loops, worklist, position, intermediate_code, q_table, transition, chosen, calls, instance>>

\* the repair pass calls itself on the sequence it was given: the recursion
\* never ends, and Python raises RecursionError, which the orchestrator's
\* handler reports
FixOverflow ==
    /\ pc = "fix"
    /\ fix_loop_control_flow(code).again
    /\ fix_loop_control_flow(code).code = code
    /\ Return([compilation_data EXCEPT !.errors = CompilationError(RecursionErrorMsg),
                                      !.success = FALSE])
    /\ UNCHANGED <<symbols, q_table, transition, chosen, calls, instance>>

\* the repair pass returns, optimize() returns, stage 5 stores its results
FixReturn ==
    /\ pc = "fix"
    /\ ~fix_loop_control_flow(code).again
    /\ pc' = "codegen"
    /\ compilation_data' =
          [compilation_data EXCEPT !.optimized_code = Listing(fix_loop_control_flow(code).code),
                                   !.optimization_log = optimization_log]
    /\ code' = fix_loop_control_flow(code).code
    /\ UNCHANGED <<symbols, ast, variable_usage, optimization_log, loops, worklist,
                   position, intermediate_code, q_table, transition, chosen, calls, instance>>

\* stage 6
CodeGeneration ==
    /\ pc = "codegen"
    /\ pc' = "execute"
    /\ compilation_data' = [compilation_data EXCEPT !.python_code = python_generate(ast)]
    /\ UNCHANGED <<symbols, ast, code, variable_usage, optimization_log, loops, worklist,
                   position, intermediate_code, q_table, transition, chosen, calls, instance>>

\* what SecureExecutor.execute can hand back: (output, errors, success)
ExecutionOutcomes ==
    {[output |-> <<"<captured output>">>, errors |-> <<>>, success |-> TRUE],
     [output |-> <<>>, errors |-> <<"Runtime Error: ", "<exception>">>, success |-> FALSE],
     [output |-> <<>>, errors |-> <<"Execution timed out">>, success |-> FALSE]}

\* stage 7, and the return of the record
Execute(outcome) ==
    /\ pc = "execute"
    /\ Return([compilation_data EXCEPT !.output = outcome.output,
                                      !.errors = outcome.errors,
                                      !.success = outcome.success])
    /\ UNCHANGED <<symbols, q_table, transition, chosen, calls, instance>>

Next ==
    \/ Call
    \/ \E source \in FaultySources : LexFailure(source)
    \/ \E source \in FaultySources : ParseFailure(source)
    \/ \E program \in Programs : Parse(program)
    \/ Analyze
    \/ Generate
    \/ ConstantFolding
    \/ LoopInvariantMotion
    \/ DeadCodeElimination
    \/ FixRecurse
    \/ FixOverflow
    \/ FixReturn
    \/ CodeGeneration
    \/ \E outcome \in ExecutionOutcomes : Execute(outcome)

Spec == Init /\ [][Next]_vars

-----------------------------------------------------------------------------
(* The optimizer as a client of its policy interface uses it between calls *)

\* the state keys of the positions of the code of print(2);
StateKeys ==
    {get_state_key(generate(<<PrintStatement(Lit(2))>>), p) : p \in 0..1}

\* actions as get_possible_actions builds them
PolicyActions ==
    {OptimizationAction("constant_folding", 0, Fin(4, 5)),
     OptimizationAction("dead_code_elimination", 1, Fin(7, 10))}

Rewards == {Fin(50, 1), Fin(-30, 1)}

MaxEntries == 2

MaxDen == 20

QEntries(q) == {<<st, k>> : st \in DOMAIN q, k \in UNION {DOMAIN q[t] : t \in DOMAIN q}}
                  \cap UNION {{<<st, k>> : k \in DOMAIN q[st]} : st \in DOMAIN q}

\* a call of update_q_value between two compilations
UpdateQValue(state, a, reward, next_state) ==
    /\ pc = "idle"
    /\ LET r == update_q_value(q_table, state, a, reward, next_state)
       IN  /\ Cardinality(QEntries(r.q_table)) <= MaxEntries
           /\ \A e \in QEntries(r.q_table) : r.q_table[e[1]][e[2]].den <= MaxDen
           /\ q_table' = r.q_table
           /\ transition' = <<[state |-> state, action |-> r.action,
                              reward |-> reward, next_state |-> next_state]>>
    /\ UNCHANGED <<pc, symbols, ast, compilation_data, intermediate_code, chosen, calls, instance>>
    /\ OptimizerIdle

PolicyNext ==
    \E state \in StateKeys, a \in PolicyActions, reward \in Rewards, next_state \in StateKeys :
        UpdateQValue(state, a, reward, next_state)

PolicySpec == Init /\ [][PolicyNext]_vars

-----------------------------------------------------------------------------
(* The orchestrator on an optimizer whose policy interface has been used *)

\* the tables one update_q_value call leaves, and the empty one
QTables ==
    {<<>>} \cup
    {update_q_value(<<>>, state, a, reward, state).q_table :
        state \in StateKeys, a \in PolicyActions, reward \in Rewards}

DriverInit ==
    /\ pc = "idle"
    /\ symbols = {}
    /\ ast = <<>>
    /\ compilation_data = EmptyData
    /\ code = <<>>
    /\ variable_usage = <<>>
    /\ optimization_log = <<>>
    /\ loops = <<>>
    /\ worklist = <<>>
    /\ position = 0
    /\ intermediate_code = <<>>
    /\ q_table \in QTables
    /\ transition = <<>>
    /\ chosen = <<>>
    /\ calls = NoCalls
    /\ instance = NewCompiler

DriverPrograms ==
    {DeadStoreScenario, DivisionScenario,
     Prelude \o <<WhileStatement(BinaryOperation(Identifier(vi), "<", Lit(MaxLit)),
                    <<AssignmentStatement(vx, "=", Lit(0)),
                      AssignmentStatement(vi, "=", BinaryOperation(Identifier(vi), "+", Lit(1)))>>)>>,
     Prelude \o <<WhileStatement(Lit(1),
                    <<AssignmentStatement(vx, "=", BinaryOperation(Identifier(vx), "+", Lit(1)))>>)>>}

DriverNext ==
    \/ Call
    \/ \E program \in DriverPrograms : Parse(program)
    \/ Analyze
    \/ Generate
    \/ ConstantFolding
    \/ LoopInvariantMotion
    \/ DeadCodeElimination
    \/ FixRecurse
    \/ FixOverflow
    \/ FixReturn
    \/ CodeGeneration
    \/ \E outcome \in ExecutionOutcomes : Execute(outcome)

DriverSpec == DriverInit /\ [][DriverNext]_vars

-----------------------------------------------------------------------------
(* Choices of the policy: choose_action on a table that has learned one value *)

\* t1 = 2 * 2; x = t1
OfferScenario ==
    generate(<<AssignmentStatement(vx, "=", BinaryOperation(Lit(2), "*", Lit(2)))>>)

\* the lists get_possible_actions returns along a sequence, and past its end
ActionLists ==
    {get_possible_actions(OfferScenario, analyze_code(OfferScenario), p,
                          find_loops(OfferScenario)) : p \in 0..Len(OfferScenario)}

\* a call of choose_action between two compilations; explore is the outcome of
\* random.random() < epsilon, and the result is one of the possible choices
ChooseAction(state, actions, explore) ==
    /\ pc = "idle"
    /\ LET r == choose_action(q_table, state, actions, explore)
       IN  /\ q_table' = r.q_table
           /\ \E result \in r.results :
                 chosen' = <<[state |-> state, actions |-> actions, result |-> result]>>
    /\ UNCHANGED <<pc, symbols, ast, compilation_data, intermediate_code, transition, calls, instance>>
    /\ OptimizerIdle

ChoiceNext ==
    \E state \in StateKeys, actions \in ActionLists, explore \in BOOLEAN :
        ChooseAction(state, actions, explore)

ChoiceSpec == DriverInit /\ [][ChoiceNext]_vars

-----------------------------------------------------------------------------
(* The front end on expression texts: stages 1 and 2 of compile_and_execute on
   assignments whose right-hand sides are written without parentheses *)

BinaryOperators == {"||", "&&", "==", "!=", ">", "<", ">=", "<=", "+", "-", "*", "/"}

UnaryOperators == {"!", "-"}

\* right-hand sides, as lists of operands and operators
ExprPieces ==
    {<<"a", op1, "1", op2, "c">> : op1 \in BinaryOperators, op2 \in BinaryOperators}
    \cup {<<"a", op1, "1", op2, "c", op3, "2">> :
            op1 \in {"||", "+", "*"}, op2 \in {"&&", "<", "-", "/"}, op3 \in {"==", "+", "*"}}
    \cup {<<u, "a", op, "1">> : u \in UnaryOperators, op \in BinaryOperators}
    \cup {<<"a", op, u, "1">> : u \in UnaryOperators, op \in BinaryOperators}
    \cup {<<u, v, "a", "*", "1">> : u \in UnaryOperators, v \in UnaryOperators}

RECURSIVE PiecesSource(_)
PiecesSource(pieces) ==
    IF pieces = <<>> THEN <<>>
    ELSE OpChars(pieces[1]) \o (IF Len(pieces) > 1 THEN <<" ">> ELSE <<>>)
         \o PiecesSource(Tail(pieces))

\* x = <right-hand side>;
ExprTexts == {<<"x", " ", "=", " ">> \o PiecesSource(pieces) \o <<";">> : pieces \in ExprPieces}

\* the tokens and the parse of each text
FrontEnd ==
    [text \in ExprTexts |->
        LET lx == tokenize(text)
        IN  [lexer |-> lx,
             parser |-> IF lx.error = NoneVal THEN parse(lx.tokens) ELSE Parsed(0, <<>>)]]

\* stages 1 and 2 on a source text: the tokens and the Program, or the
\* SyntaxError or ParseError reported
ParseText(text) ==
    /\ pc = "parse"
    /\ LET lx == FrontEnd[text].lexer
           r  == FrontEnd[text].parser
       IN  IF lx.error # NoneVal
           THEN Return([compilation_data EXCEPT !.errors = CompilationError(lx.error),
                                                !.success = FALSE])
           ELSE IF r.error # NoneVal
           THEN Return([compilation_data EXCEPT !.tokens = lx.tokens,
                                                !.errors = CompilationError(r.error),
                                                !.success = FALSE])
           ELSE /\ pc' = "analyze"
                /\ ast' = r.value
                /\ compilation_data' = [compilation_data EXCEPT
                                           !.tokens = lx.tokens,
                                           !.ast = ProgramDict(r.value)]
                /\ UNCHANGED intermediate_code
                /\ OptimizerIdle
    /\ UNCHANGED <<symbols, q_table, transition, chosen, calls, instance>>

\* the call is abandoned after stage 2
Abandon ==
    /\ pc = "analyze"
    /\ Return(compilation_data)
    /\ UNCHANGED <<symbols, q_table, transition, chosen, calls, instance>>

FrontEndNext ==
    \/ Call
    \/ \E text \in ExprTexts : ParseText(text)
    \/ Abandon

FrontEndSpec == Init /\ [][FrontEndNext]_vars

-----------------------------------------------------------------------------
(* Concurrent requests: two compile_and_execute calls on the shared compiler,
   interleaved between statements.  The sources are valid, so no stage raises. *)

\* the dict self.compilation_data names now
Current == instance.compilation_data

Goto(t, stage) == [calls EXCEPT ![t].pc = stage]

\* the calls of this section use none of the single call's variables
SingleCallIdle ==
    /\ UNCHANGED <<pc, symbols, ast, compilation_data, intermediate_code, q_table,
                   transition, chosen>>
    /\ OptimizerIdle

\* what the executor hands back for a program text
Run(python_code) ==
    [output |-> <<"<output of>">> \o python_code, errors |-> <<>>, success |-> TRUE]

\* self.compilation_data = {...}: a new dict, named after the call
ResetData(t) ==
    /\ calls[t].pc = "reset"
    /\ instance' = [instance EXCEPT !.compilation_data = t,
                                    !.dicts = (t :> EmptyData) @@ @]
    /\ calls' = Goto(t, "lexer")
    /\ SingleCallIdle

\* self.lexer = Lexer(source_code)
NewLexerObject(t) ==
    /\ calls[t].pc = "lexer"
    /\ instance' = [instance EXCEPT
                       !.lexer = t,
                       !.lexers = (t :> [source |-> calls[t].source_code, state |-> NewLexer]) @@ @]
    /\ calls' = Goto(t, "tokenize")
    /\ SingleCallIdle

\* tokens = self.lexer.tokenize(); self.compilation_data['tokens'] = [...]:
\* the Lexer the attribute names now goes on from where it stands
Tokenize(t) ==
    /\ calls[t].pc = "tokenize"
    /\ LET lx == instance.lexers[instance.lexer]
           after == LexFrom(lx.source, lx.state)
       IN  /\ calls' = [calls EXCEPT ![t].pc = "parser", ![t].tokens = instance.lexer]
           /\ instance' = [instance EXCEPT !.lexers[instance.lexer].state = after,
                                           !.dicts[Current].tokens = after.tokens]
    /\ SingleCallIdle

\* self.parser = Parser(tokens): the Parser keeps the list, not a copy
NewParserObject(t) ==
    /\ calls[t].pc = "parser"
    /\ instance' = [instance EXCEPT
                       !.parser = t,
                       !.parsers = (t :> [tokens |-> calls[t].tokens, position |-> 0]) @@ @]
    /\ calls' = Goto(t, "parse")
    /\ SingleCallIdle

\* ast = self.parser.parse(); self.compilation_data['ast'] = self.ast_to_dict(ast):
\* the Parser the attribute names now goes on from its position
ParseTokens(t) ==
    /\ calls[t].pc = "parse"
    /\ LET p == instance.parsers[instance.parser]
           tokens == instance.lexers[p.tokens].state.tokens
           r == ProgramLoop(tokens, SkipNewlines(tokens, p.position), <<>>)
       IN  /\ calls' = [calls EXCEPT ![t].pc = "analyze", ![t].ast = r.value]
           /\ instance' = [instance EXCEPT !.parsers[instance.parser].position = r.position,
                                           !.dicts[Current].ast = ProgramDict(r.value)]
    /\ SingleCallIdle

\* stage 3 on the shared analyzer; with diagnostics the call returns here
AnalyzeProgram(t) ==
    /\ calls[t].pc = "analyze"
    /\ LET r == analyze(calls[t].ast, instance.symbols)
       IN  IF r.errors # <<>>
           THEN /\ instance' = [instance EXCEPT !.symbols = r.symbols,
                                               !.dicts[Current].semantic_errors = r.errors,
                                               !.dicts[Current].errors = Join(r.errors)]
                /\ calls' = [calls EXCEPT ![t].pc = "done", ![t].result = <<Current>>]
           ELSE /\ instance' = [instance EXCEPT !.symbols = r.symbols,
                                               !.dicts[Current].semantic_errors = r.errors]
                /\ calls' = Goto(t, "generate")
    /\ SingleCallIdle

\* stage 4
GenerateCode(t) ==
    /\ calls[t].pc = "generate"
    /\ LET c == generate(calls[t].ast)
       IN  /\ calls' = [calls EXCEPT ![t].pc = "optimize", ![t].intermediate_code = c]
           /\ instance' = [instance EXCEPT !.dicts[Current].intermediate_code = Listing(c)]
    /\ SingleCallIdle

\* stage 5: both results are stored
OptimizeCode(t) ==
    /\ calls[t].pc = "optimize"
    /\ LET r == optimize(calls[t].intermediate_code)
       IN  instance' = [instance EXCEPT !.dicts[Current].optimized_code = Listing(r.code),
                                        !.dicts[Current].optimization_log = r.log]
    /\ calls' = Goto(t, "codegen")
    /\ SingleCallIdle

\* stage 6
GeneratePython(t) ==
    /\ calls[t].pc = "codegen"
    /\ LET text == python_generate(calls[t].ast)
       IN  /\ calls' = [calls EXCEPT ![t].pc = "execute", ![t].python_code = text]
           /\ instance' = [instance EXCEPT !.dicts[Current].python_code = text]
    /\ SingleCallIdle

\* stage 7
ExecutePython(t) ==
    /\ calls[t].pc = "execute"
    /\ LET r == Run(calls[t].python_code)
       IN  instance' = [instance EXCEPT !.dicts[Current].output = r.output,
                                        !.dicts[Current].errors = r.errors,
                                        !.dicts[Current].success = r.success]
    /\ calls' = Goto(t, "return")
    /\ SingleCallIdle

\* return self.compilation_data
ReturnData(t) ==
    /\ calls[t].pc = "return"
    /\ calls' = [calls EXCEPT ![t].pc = "done", ![t].result = <<Current>>]
    /\ UNCHANGED instance
    /\ SingleCallIdle

ConcurrentNext ==
    \E t \in Threads :
        \/ ResetData(t)
        \/ NewLexerObject(t)
        \/ Tokenize(t)
        \/ NewParserObject(t)
        \/ ParseTokens(t)
        \/ AnalyzeProgram(t)
        \/ GenerateCode(t)
        \/ OptimizeCode(t)
        \/ GeneratePython(t)
        \/ ExecutePython(t)
        \/ ReturnData(t)

ConcurrentSpec == Init /\ [][ConcurrentNext]_vars

\* the record compile_and_execute returns for a source when it runs alone
Alone(source_code) ==
    LET tokens  == tokenize(source_code).tokens
        program == parse(tokens).value
        c       == generate(program)
        text    == python_generate(program)
    IN  [EmptyData EXCEPT !.tokens = tokens, !.ast = ProgramDict(program),
                          !.intermediate_code = Listing(c),
                          !.optimized_code = Listing(optimize(c).code),
                          !.optimization_log = optimize(c).log,
                          !.python_code = text,
                          !.output = Run(text).output, !.success = TRUE]

-----------------------------------------------------------------------------
(* Properties *)

Occurrences(seq, x) == Cardinality({k \in DOMAIN seq : seq[k] = x})

\* C1: whenever the record holds semantic diagnostics, the call has returned
\* without generating, optimizing, emitting Python or executing: the
\* intermediate listing, the optimized listing, the optimization log, the
\* Python text and the output are empty, success is false, and errors is the
\* diagnostics joined by newlines in their order
C1_SemanticErrorsStopPipeline ==
    compilation_data.semantic_errors # <<>> =>
        /\ pc = "idle"
        /\ compilation_data.intermediate_code = <<>>
        /\ compilation_data.optimized_code = <<>>
        /\ compilation_data.optimization_log = <<>>
        /\ compilation_data.python_code = <<>>
        /\ compilation_data.output = <<>>
        /\ compilation_data.success = FALSE
        /\ compilation_data.errors = Join(compilation_data.semantic_errors)
        /\ intermediate_code = <<>>
        /\ code = <<>>
        /\ optimization_log = <<>>

\* a call that returned with two or more diagnostics
C1_Witness ==
    /\ pc = "idle"
    /\ Len(compilation_data.semantic_errors) >= 2
    /\ compilation_data.errors = Join(compilation_data.semantic_errors)

\* C2: in any sequence of calls on one orchestrator, the diagnostics of an
\* analysis are those of the program analysed from an empty symbol table:
\* names defined only by an earlier program do not count as defined
C2_DefinitionsAreLocalToProgram ==
    [][pc = "analyze" =>
          compilation_data'.semantic_errors = analyze(ast, {}).errors]_vars

RECURSIVE ZeroDivisionsIn(_)
\* the division nodes of an expression whose right operand is a literal zero
ZeroDivisionsIn(e) ==
    CASE e.node = "BinaryOperation" ->
            ZeroDivisionsIn(e.left) + ZeroDivisionsIn(e.right)
            + (IF /\ e.operator = "/"
                   /\ e.right.node = "NumberLiteral"
                   /\ e.right.value = 0
                THEN 1 ELSE 0)
      [] e.node = "UnaryOperation" -> ZeroDivisionsIn(e.operand)
      [] OTHER -> 0

RECURSIVE ZeroDivisions(_)
\* the same count over a statement list, bodies included
ZeroDivisions(stmts) ==
    IF stmts = <<>> THEN 0
    ELSE LET s == Head(stmts)
             here ==
                 CASE s.node = "AssignmentStatement" -> ZeroDivisionsIn(s.value)
                   [] s.node = "PrintStatement" -> ZeroDivisionsIn(s.expression)
                   [] s.node = "WhileStatement" ->
                         ZeroDivisionsIn(s.condition) + ZeroDivisions(s.body)
                   [] s.node = "IfStatement" ->
                         ZeroDivisionsIn(s.condition) + ZeroDivisions(s.then_body)
                         + ZeroDivisions(s.else_body)
                   [] OTHER -> 0
         IN  here + ZeroDivisions(Tail(stmts))

\* C3: an analysis reports "Division by zero" once for each division whose
\* right operand is a number literal equal to zero, and for nothing else: not
\* for another operator with a zero operand, a zero left operand, or a
\* variable that holds zero
C3_DivisionByZeroExactlyLiteralZero ==
    [][pc = "analyze" =>
          Occurrences(compilation_data'.semantic_errors, DivZeroMsg) = ZeroDivisions(ast)]_vars

\* a call that returned with the diagnostic
C3_Witness ==
    /\ pc = "idle"
    /\ Occurrences(compilation_data.semantic_errors, DivZeroMsg) = 1

\* an instruction reads the name n as an operand
ReadsOperand(ins, n) ==
    \/ ins.operation \notin {"LABEL", "GOTO"} /\ ins.arg1 = n
    \/ ins.operation \notin {"LABEL", "GOTO", "IF_FALSE"} /\ ins.arg2 = n

\* no instruction of c from index pos on reads the result of ins
NotReadFrom(c, pos, ins) ==
    \A k \in pos..(Len(c) - 1) : ~ReadsOperand(At(c, k), ins.result)

\* the primitive, called at any position right after analyze_code on c
PrimitiveKeepsWhatIsRead(c) ==
    \A pos \in Indices(c) :
        LET out == apply_dead_code_elimination(c, analyze_code(c), pos)
        IN  out # c =>
               /\ At(c, pos).operation \notin {"PRINT", "SCAN"}
               /\ NotReadFrom(out, pos, At(c, pos))

\* the driver's third pass, started on c with the usage map of the optimizer
DriverKeepsWhatIsRead(c, usage) ==
    LET r == DeadCodePass(c, usage)
    IN  \A k \in DOMAIN r.removed :
           /\ r.removed[k].instr.operation \notin {"PRINT", "SCAN"}
           /\ NotReadFrom(r.code, r.removed[k].position, r.removed[k].instr)

\* C4: dead-code elimination removes neither a PRINT nor a SCAN, nor an
\* instruction whose result name is read as an operand by a later instruction
\* that survives: for the primitive called right after analyze_code on the
\* sequence the optimizer holds, and for the third pass of the driver, whatever
\* identifiers the program uses
C4_DeadCodeKeepsEffectsAndUses ==
    /\ pc \in {"fold", "licm"} => PrimitiveKeepsWhatIsRead(code)
    /\ pc = "licm" /\ position >= Len(worklist) => DriverKeepsWhatIsRead(code, variable_usage)

\* one activation of the repair pass calls itself on the sequence it was given
RepairPassRepeatsItself(c) ==
    /\ fix_loop_control_flow(c).again
    /\ fix_loop_control_flow(c).code = c

\* C5: optimize() terminates on the code of every program that is valid on
\* its own: the repair pass never calls itself again on the very sequence it
\* was given, which is a recursion without end
C5_RepairPassTerminates ==
    pc = "fix" /\ analyze(ast, {}).errors = <<>> => ~RepairPassRepeatsItself(code)

WhilesOf(stmts) == {k \in DOMAIN stmts : stmts[k].node = "WhileStatement"}

\* statements without control flow
IsFlat(stmts) ==
    \A k \in DOMAIN stmts :
        stmts[k].node \in {"AssignmentStatement", "PrintStatement", "ScanStatement"}

\* the record spans the LABEL at index first up to the GOTO back to it at last
SpansLoop(c, l, first, last) ==
    /\ l.start = first
    /\ l.end = last
    /\ At(c, first).operation = "LABEL"
    /\ At(c, last).operation = "GOTO"
    /\ At(c, last).arg1 = At(c, first).arg1

\* the program's only loop is its k-th statement, a while with a flat body:
\* its LABEL follows the code of the statements before it, and its GOTO is
\* the last but one instruction of the code up to it
SingleLoopFound(program, k) ==
    LET c  == generate(program)
        ls == find_loops(c)
    IN  /\ Len(ls) = 1
        /\ SpansLoop(c, ls[1], Len(generate(SubSeq(program, 1, k - 1))),
                     Len(generate(SubSeq(program, 1, k))) - 2)

\* the program's k-th statement is a while whose m-th body statement is a
\* while with a flat body; cutting the outer body before and after the inner
\* loop gives the inner loop's indices
OuterLoopFound(program, k, l) ==
    SpansLoop(generate(program), l, Len(generate(SubSeq(program, 1, k - 1))),
              Len(generate(SubSeq(program, 1, k))) - 2)

InnerLoopFound(program, k, m, l) ==
    LET upto(n) == SubSeq(program, 1, k - 1)
                   \o <<[program[k] EXCEPT !.body = SubSeq(@, 1, n)]>>
    IN  SpansLoop(generate(program), l, Len(generate(upto(m - 1))) - 2,
                  Len(generate(upto(m))) - 4)

InList(seq, x) == \E n \in DOMAIN seq : seq[n] = x

NestedLoopsFound(program, k, m) ==
    LET ls == find_loops(generate(program))
    IN  /\ Len(ls) = 2
        /\ \E o, i \in Indices(ls) :
              /\ o # i
              /\ OuterLoopFound(program, k, At(ls, o))
              /\ InnerLoopFound(program, k, m, At(ls, i))
              /\ At(ls, i).parent = o
              /\ InList(At(ls, o).children, i)
              /\ At(ls, o).start < At(ls, i).start
              /\ At(ls, i).end < At(ls, o).end

\* C6: on the code generated for a program whose only loop is one while
\* statement, find_loops returns one record, from the index of the loop's
\* LABEL to the index of its GOTO back; for a while directly inside another
\* while it returns two records, the inner one's parent is the outer one's
\* index, the outer one's children hold the inner one's index, and the outer
\* span strictly contains the inner span
C6_FindLoopsRecordsAndNesting ==
    pc = "fold" =>
        \A k \in WhilesOf(ast) :
            WhilesOf(ast) = {k} /\ IsFlat(SubSeq(ast, 1, k - 1)) =>
                /\ IsFlat(ast[k].body) => SingleLoopFound(ast, k)
                /\ \A m \in WhilesOf(ast[k].body) :
                      /\ WhilesOf(ast[k].body) = {m}
                      /\ IsFlat(SubSeq(ast[k].body, 1, m - 1))
                      /\ IsFlat(SubSeq(ast[k].body, m + 1, Len(ast[k].body)))
                      /\ IsFlat(ast[k].body[m].body)
                      => NestedLoopsFound(ast, k, m)

\* C7: the constant-folding pass is idempotent: on whatever sequence the
\* optimizer holds, running the pass on the result of the pass changes no
\* instruction and logs nothing
C7_ConstantFoldingIdempotent ==
    LET once == ConstantFoldingPass(code)
    IN  ConstantFoldingPass(once.code) = [code |-> once.code, log |-> <<>>]

\* the driver's first pass has just folded two instructions or more
C7_Witness ==
    /\ pc = "licm"
    /\ position = 0
    /\ Len(optimization_log) >= 2
    /\ code # intermediate_code

\* the state optimize() is in right after its first pass
AfterFirstPass == pc = "licm" /\ position = 0

\* the text is a number literal as the generator renders one
IsNumberText(t) == IsStr(t) /\ float(t).k = "fin" /\ IsDigit(t[1])

\* C8 as stated: after the first pass on x = 2; y = x + 3; print(y); the
\* instructions that define x and y are ASSIGNs of number literals, and the
\* one that defines y assigns the literal 5
C8_ScenarioFoldsThroughVariable ==
    AfterFirstPass /\ ast = FoldingScenario =>
        \A k \in Indices(code) :
            At(code, k).result \in {vx, <<"y">>} =>
                /\ At(code, k).operation = "ASSIGN"
                /\ IsNumberText(At(code, k).arg1)
                /\ At(code, k).result = <<"y">> => float(At(code, k).arg1) = Fin(5, 1)

\* C8 amended: the first pass leaves the code of the scenario as generated
\* and logs nothing: x is assigned the literal 2.0, t1 is still x + 3.0 with
\* the variable x as its operand, y is assigned t1, and y is printed
C8_ScenarioIsLeftUnfolded ==
    AfterFirstPass /\ ast = FoldingScenario =>
        /\ optimization_log = <<>>
        /\ code = intermediate_code
        /\ code = <<ThreeAddressCode("ASSIGN", <<"2", ".", "0">>, NoneVal, vx),
                    ThreeAddressCode("+", vx, <<"3", ".", "0">>, <<"t", "1">>),
                    ThreeAddressCode("ASSIGN", <<"t", "1">>, NoneVal, <<"y">>),
                    ThreeAddressCode("PRINT", <<"y">>, NoneVal, NoneVal)>>

\* the first pass has run on the scenario
C8_Witness ==
    /\ AfterFirstPass
    /\ ast = FoldingScenario
    /\ Len(code) = 4

RECURSIVE OperatorsIn(_)
\* the binary and unary operator nodes of an expression
OperatorsIn(e) ==
    CASE e.node = "BinaryOperation" -> 1 + OperatorsIn(e.left) + OperatorsIn(e.right)
      [] e.node = "UnaryOperation" -> 1 + OperatorsIn(e.operand)
      [] OTHER -> 0

RECURSIVE OperatorNodes(_)
\* the same over flat statements
OperatorNodes(stmts) ==
    IF stmts = <<>> THEN 0
    ELSE LET s == Head(stmts)
             here == CASE s.node = "AssignmentStatement" -> OperatorsIn(s.value)
                       [] s.node = "PrintStatement" -> OperatorsIn(s.expression)
                       [] OTHER -> 0
         IN  here + OperatorNodes(Tail(stmts))

CompoundAssignments(stmts) ==
    Cardinality({k \in DOMAIN stmts :
        stmts[k].node = "AssignmentStatement" /\ stmts[k].operator \in {"+=", "-="}})

\* C9 as stated: the code generated for a program without while and if has
\* one instruction for each binary or unary operator node and one for each
\* statement, whichever of =, += and -= its assignments use
C9_OneInstructionPerOperatorAndStatement ==
    pc = "fold" /\ IsFlat(ast) =>
        Len(intermediate_code) = OperatorNodes(ast) + Len(ast)

\* C9 amended: the code generated for a program without while and if has one
\* instruction for each binary or unary operator node, one for each statement,
\* and one more for each += or -= assignment
C9_CompoundAssignmentTakesTwoInstructions ==
    pc = "fold" /\ IsFlat(ast) =>
        Len(intermediate_code) = OperatorNodes(ast) + Len(ast) + CompoundAssignments(ast)

\* code was generated for a program with a compound assignment and an operator
C9_Witness ==
    /\ pc = "fold"
    /\ IsFlat(ast)
    /\ CompoundAssignments(ast) >= 1
    /\ OperatorNodes(ast) >= 1
    /\ Len(intermediate_code) = OperatorNodes(ast) + Len(ast) + CompoundAssignments(ast)

IfsOf(stmts) == {k \in DOMAIN stmts : stmts[k].node = "IfStatement"}

\* the instructions the k-th statement of the program added
CodeOfStatement(program, k) ==
    SubSeq(generate(SubSeq(program, 1, k)),
           Len(generate(SubSeq(program, 1, k - 1))) + 1,
           Len(generate(SubSeq(program, 1, k))))

CountOp(c, op) == Cardinality({n \in DOMAIN c : c[n].operation = op})

\* condition code, IF_FALSE to the first label, then body, GOTO to the second
\* label, first label, else body, second label
ShapeWithElse(c, s) ==
    /\ CountOp(c, "IF_FALSE") = 1
    /\ CountOp(c, "GOTO") = 1
    /\ CountOp(c, "LABEL") = 2
    /\ \E f, g, l1, l2 \in DOMAIN c :
          /\ c[f].operation = "IF_FALSE"
          /\ c[g].operation = "GOTO"
          /\ c[l1].operation = "LABEL"
          /\ c[l2].operation = "LABEL"
          /\ f = OperatorsIn(s.condition) + 1
          /\ g = f + Len(generate(s.then_body)) + 1
          /\ l1 = g + 1
          /\ l2 = l1 + Len(generate(s.else_body)) + 1
          /\ l2 = Len(c)
          /\ c[f].arg2 = c[l1].arg1
          /\ c[g].arg1 = c[l2].arg1
          /\ c[l1].arg1 # c[l2].arg1

\* condition code, IF_FALSE to the label, then body, the label
ShapeWithoutElse(c, s) ==
    /\ CountOp(c, "IF_FALSE") = 1
    /\ CountOp(c, "GOTO") = 0
    /\ CountOp(c, "LABEL") = 1
    /\ \E f, l \in DOMAIN c :
          /\ c[f].operation = "IF_FALSE"
          /\ c[l].operation = "LABEL"
          /\ f = OperatorsIn(s.condition) + 1
          /\ l = f + Len(generate(s.then_body)) + 1
          /\ l = Len(c)
          /\ c[f].arg2 = c[l].arg1

\* the if statements of the program whose bodies have no control flow
PlainIfs(program) ==
    {k \in IfsOf(program) :
        IsFlat(program[k].then_body) /\ IsFlat(program[k].else_body)}

\* C10 as stated: an if statement written with an else emits one IF_FALSE,
\* one GOTO and two LABELs in the order IF_FALSE, then body, GOTO, LABEL,
\* else body, LABEL; one written without an else emits one IF_FALSE, no GOTO
\* and one LABEL, the target of the IF_FALSE
C10_ElseKeywordDecidesShape ==
    pc = "fold" =>
        \A k \in PlainIfs(ast) :
            IF ast[k].has_else
            THEN ShapeWithElse(CodeOfStatement(ast, k), ast[k])
            ELSE ShapeWithoutElse(CodeOfStatement(ast, k), ast[k])

\* C10 amended: an if statement with a non-empty else body emits one
\* IF_FALSE, one GOTO and two LABELs in the order IF_FALSE, then body, GOTO,
\* LABEL, else body, LABEL; one without an else, or with an empty else body,
\* emits one IF_FALSE, no GOTO and one LABEL, the target of the IF_FALSE
C10_ElseBodyDecidesShape ==
    pc = "fold" =>
        \A k \in PlainIfs(ast) :
            IF ast[k].has_else /\ ast[k].else_body # <<>>
            THEN ShapeWithElse(CodeOfStatement(ast, k), ast[k])
            ELSE ShapeWithoutElse(CodeOfStatement(ast, k), ast[k])

\* code was generated for an if statement written with an empty else body
C10_Witness ==
    /\ pc = "fold"
    /\ \E k \in PlainIfs(ast) :
          /\ ast[k].has_else
          /\ ast[k].else_body = <<>>
          /\ ast[k].then_body # <<>>
          /\ ShapeWithoutElse(CodeOfStatement(ast, k), ast[k])

\* the PRINT operands of c in their order
RECURSIVE PrintOperands(_)
PrintOperands(c) ==
    IF c = <<>> THEN <<>>
    ELSE (IF Head(c).operation = "PRINT" THEN <<Head(c).arg1>> ELSE <<>>)
         \o PrintOperands(Tail(c))

\* the instruction at index k of c is an ASSIGN no later instruction reads
DeadAssign(c, k) ==
    /\ At(c, k).operation = "ASSIGN"
    /\ NotReadFrom(c, k + 1, At(c, k))

\* C11: when optimize() returns, for every name that an ASSIGN of its input
\* defined without any later instruction reading it, the output holds no such
\* definition of the name any more (which the absence of every definition of
\* the name implies), and the PRINT instructions of the input are all there
C11_DeadAssignmentIsRemoved ==
    pc = "codegen" =>
        /\ \A k \in Indices(intermediate_code) :
              DeadAssign(intermediate_code, k) =>
                 \A m \in Indices(code) :
                    At(code, m).result = At(intermediate_code, k).result
                       => ~DeadAssign(code, m)
        /\ PrintOperands(code) = PrintOperands(intermediate_code)

\* C12: a first update_q_value call on an empty Q-table leaves exactly one entry,
\* Q(state, "<type>_<position>") = learning_rate * reward, and the action's
\* confidence is that value
C12_FirstUpdateStoresScaledReward ==
    [][(q_table = <<>> /\ transition' # transition) =>
          LET t      == transition'[1]
              key    == <<t.action.type, "_">> \o NatStr(t.action.position)
              scaled == Fin(t.reward.num, 10 * t.reward.den)
          IN  /\ q_table' = (t.state :> (key :> scaled))
              /\ t.action.confidence = scaled]_vars

C12_Witness ==
    /\ transition # <<>>
    /\ transition[1].reward = Fin(-30, 1)
    /\ transition[1].action.confidence = Fin(-3, 1)
    /\ q_table = (transition[1].state :> (ActionKey(transition[1].action) :> Fin(-3, 1)))


\* C13: optimize() neither reads nor writes the Q-table: no step of a compilation
\* changes q_table, and whatever the table holds the driver's output is the same
\* (for a = 1; print(2); it is the PRINT instruction alone)
C13_DriverIgnoresQTable ==
    [][/\ q_table' = q_table
       /\ (pc' = "codegen" /\ intermediate_code' = generate(DeadStoreScenario)) =>
              code' = <<At(intermediate_code', 1)>>]_vars

C13_Witness ==
    /\ pc = "codegen"
    /\ q_table # <<>>
    /\ intermediate_code = generate(DeadStoreScenario)
    /\ code = <<At(intermediate_code, 1)>>
    /\ optimization_log # <<>>


LexerMessages == {"Unknown character '", "Unterminated string at line "}

FailureReported(d) ==
    /\ d.success = FALSE
    /\ StartsWith(d.errors, <<"Compilation Error: ">>)
    /\ d.optimized_code = <<>>
    /\ d.optimization_log = <<>>
    /\ d.python_code = <<>>
    /\ d.output = <<>>

\* C14: an exception of a stage does not leave compile_and_execute: the call
\* returns with success false and errors "Compilation Error: ...", and the
\* outputs of the stages after the failing one are the empty defaults (no tokens
\* after a lexer error, no ast and no IR after a lexer or parser error, no
\* optimized code, log, Python code or output after an optimizer error)
C14_FailuresAreCaughtAndReported ==
    [][LET d == compilation_data'
       IN  /\ (pc = "parse" /\ pc' = "idle") =>
                 /\ FailureReported(d)
                 /\ d.ast = <<>>
                 /\ d.semantic_errors = <<>>
                 /\ d.intermediate_code = <<>>
                 /\ d.errors[2] \in LexerMessages => d.tokens = <<>>
           /\ (pc = "fix" /\ pc' = "idle") => FailureReported(d)]_vars

C14_Witness ==
    /\ pc = "idle"
    /\ FailureReported(compilation_data)
    /\ compilation_data.errors[2] \in LexerMessages
    /\ compilation_data.tokens = <<>>
    /\ compilation_data.ast = <<>>


InsideLoopBody(c, pos) ==
    \E k \in Indices(find_loops(c)) :
        At(find_loops(c), k).start < pos /\ pos < At(find_loops(c), k).end

\* C15: whenever the second pass relocates an instruction, that instruction is,
\* in the sequence as it is then, an ASSIGN of a literal constant inside the body
\* of a loop of that sequence (no position of an earlier sequence is used)
C15_RelocatedIsConstantAssignmentInLoop ==
    [][(pc = "licm" /\ position < Len(worklist) /\ code' # code) =>
          LET moved == At(worklist, position).position
          IN  /\ At(code, moved).operation = "ASSIGN"
              /\ is_constant(At(code, moved).arg1)
              /\ InsideLoopBody(code, moved)]_vars


\* an instruction a dead-code pass deletes: it has a result that no later
\* instruction uses, and its operation has no effect of its own
Deletable(c, k) ==
    /\ Truthy(At(c, k).result)
    /\ At(c, k).operation \notin {"PRINT", "SCAN", "LABEL", "GOTO", "IF_FALSE"}
    /\ ~is_variable_used_later(analyze_code(c), k, At(c, k).result)

\* C16: when the third pass finishes its output holds no instruction that a
\* further dead-code pass would delete
C16_DeadCodePassReachesFixpoint ==
    [][(pc = "licm" /\ pc' = "fix") => \A k \in Indices(code') : ~Deletable(code', k)]_vars


BagOf(c) == [ins \in {c[k] : k \in 1..Len(c)} |-> Cardinality({k \in 1..Len(c) : c[k] = ins})]

\* the start of the outermost loop around loop k: the least start among the
\* loops whose span holds the span of loop k
OutermostStart(ls, k) ==
    LET around == {At(ls, j).start : j \in {j \in Indices(ls) :
                       At(ls, j).start <= At(ls, k).start /\ At(ls, k).end <= At(ls, j).end}}
    IN  CHOOSE st \in around : \A other \in around : st <= other

\* C17: on the records of find_loops, apply_loop_invariant_motion of a position
\* inside a loop and that loop's index keeps the length and the multiset of
\* instructions and puts the instruction right before the start LABEL of the
\* outermost loop around it
C17_MotionGoesBeforeOutermostLoop ==
    (pc = "licm" /\ position = 0) =>
        \A k \in Indices(loops), p \in Indices(code) :
            (At(loops, k).start < p /\ p < At(loops, k).end) =>
                LET out  == apply_loop_invariant_motion(code, p, k, loops)
                    root == OutermostStart(loops, k)
                IN  /\ Len(out) = Len(code)
                    /\ BagOf(out) = BagOf(code)
                    /\ At(out, root) = At(code, p)
                    /\ At(out, root + 1) = At(code, root)
                    /\ At(code, root).operation = "LABEL"


\* C18: the second pass relocates no assignment of a literal to the name that
\* the exit IF_FALSE of its loop tests
C18_ExitTestAssignmentStaysInLoop ==
    [][(pc = "licm" /\ position = 0 /\ position < Len(worklist) /\ code' # code) =>
          LET ca  == At(worklist, position)
              ins == At(code, ca.position)
              exit_test == At(code, At(loops, ca.loop_idx).condition)
          IN  ~(/\ ins.operation = "ASSIGN"
                /\ is_constant(ins.arg1)
                /\ exit_test.operation = "IF_FALSE"
                /\ exit_test.arg1 = ins.result)]_vars


\* C19: every rewrite of the driver is logged: a step of any of the four passes
\* that changes the sequence appends to the optimization log, so that the log
\* counts the rewrites of all four passes
C19_EveryRewriteIsLogged ==
    [][(pc \in {"fold", "licm", "fix"} /\ code' # code) =>
          Len(optimization_log') > Len(optimization_log)]_vars


\* a division of a literal by the literal zero
DivisionByLiteralZero ==
    <<ThreeAddressCode("/", <<"1", ".", "0">>, <<"0", ".", "0">>, TempName(1))>>

\* the results of the five primitives at a position of a sequence
PrimitiveResults(c, pos) ==
    {apply_constant_folding(c, pos),
     apply_dead_code_elimination(c, analyze_code(c), pos),
     apply_common_subexpression_elimination(c, pos),
     apply_strength_reduction(c, pos)}
    \cup {apply_loop_invariant_motion(c, pos, k, find_loops(c)) : k \in Indices(find_loops(c))}

\* C20: no primitive and no run of optimize raises, and a primitive called past
\* the end of the sequence, or to fold a division by the literal zero, returns
\* its input
C20_PrimitivesAndDriverNeverFail ==
    [][/\ ~(pc = "fix" /\ pc' = "idle")
       /\ pc \in {"fold", "licm", "fix"} => PrimitiveResults(code, Len(code)) \subseteq {code}
       /\ apply_constant_folding(DivisionByLiteralZero, 0) = DivisionByLiteralZero]_vars


\* the actions offered at a position of the sequence being optimised
OfferedActions(pos) == get_possible_actions(code, variable_usage, pos, find_loops(code))

\* an offered action whose application returns the sequence it was given
IdleOffer ==
    \E pos \in Indices(code) : \E k \in DOMAIN OfferedActions(pos) :
        apply_optimization(code, variable_usage, OfferedActions(pos)[k], find_loops(code)) = code

\* C21: an action is offered at a position only when its primitive's
\* precondition holds there: applying an offered action yields a sequence
\* different from the one it was offered for
C21_OfferedActionsRewrite ==
    pc \in {"fold", "licm", "fix"} => ~IdleOffer


\* the exploit branch of choose_action can return the k-th offered action
ExploitCanReturn(state, actions, k) ==
    ENABLED (ChooseAction(state, actions, FALSE) /\ chosen'[1].result = <<actions[k]>>)

\* the learned value of the k-th offered action is maximal among the offered ones
MaximalValue(state, actions, k) ==
    \A j \in DOMAIN actions : FloatLeq(QValue(q_table, state, ActionKey(actions[j])),
                                      QValue(q_table, state, ActionKey(actions[k])))

NoEntries(state) == state \notin DOMAIN q_table \/ DOMAIN q_table[state] = {}

\* C22: choose_action returns None for an empty list and a member of a
\* non-empty list; what its exploit branch returns has a maximal learned value
\* among the offered actions, and while the table has no entries for the state
\* every offered action is a possible result of that branch
C22_GreedyChoiceWithUniformFallback ==
    [][/\ chosen' # chosen =>
            LET call == chosen'[1]
            IN  IF call.actions = <<>> THEN call.result = <<>>
                ELSE \E k \in DOMAIN call.actions : call.result = <<call.actions[k]>>
       /\ pc = "idle" =>
            \A state \in StateKeys, actions \in ActionLists : \A k \in DOMAIN actions :
               /\ ExploitCanReturn(state, actions, k) => MaximalValue(state, actions, k)
               /\ NoEntries(state) => ExploitCanReturn(state, actions, k)]_vars


\* the positions of the closing delimiters of a token list
Closers(tokens) ==
    {i \in Indices(tokens) : /\ At(tokens, i).value \in {<<")">>, <<"}">>}
                             /\ At(tokens, i).type = Delimiters[At(tokens, i).value[1]]}

\* the token list the lexer delivers when the closer at i is typed as the other one
Misclosed(tokens, i) ==
    LET other == IF At(tokens, i).value = <<")">> THEN "}" ELSE ")"
    IN  ReplaceAt(tokens, i, Token(Delimiters[other], <<other>>, At(tokens, i).line,
                                   At(tokens, i).column))

\* C23: ')' and '}' get distinct token types, and a token list that parses
\* stops parsing, with a ParseError, once one of its closing delimiters is
\* replaced by the other one
C23_ClosersAreNotInterchangeable ==
    pc = "analyze" =>
        /\ Delimiters[")"] # Delimiters["}"]
        /\ \A i \in Closers(compilation_data.tokens) :
              parse(Misclosed(compilation_data.tokens, i)).error # NoneVal


\* the token list with a NEWLINE token between the tokens at i - 1 and i
WithNewline(tokens, i) ==
    InsertAt(tokens, i, Token("NEWLINE", <<"\n">>, At(tokens, i - 1).line,
                              At(tokens, i - 1).column + 1))

\* C24: NEWLINE tokens mean nothing to the parser: a token list that parses to
\* a Program parses to the same Program with a NEWLINE token inserted between
\* any two adjacent tokens
C24_NewlinesAreDiscarded ==
    pc = "analyze" =>
        \A i \in 1..(Len(compilation_data.tokens) - 1) :
            /\ parse(WithNewline(compilation_data.tokens, i)).error = NoneVal
            /\ parse(WithNewline(compilation_data.tokens, i)).value = ast


\* the indices of the instructions whose result is the n-th temporary
TempDefs(c, n) == {i \in Indices(c) : At(c, i).result = TempName(n)}

\* the indices of the LABEL instructions of the n-th label
LabelDefs(c, n) ==
    {i \in Indices(c) : At(c, i).operation = "LABEL" /\ At(c, i).arg1 = LabelName(n)}

\* the indices of the instructions that name the n-th label
LabelUses(c, n) ==
    {i \in Indices(c) : \/ At(c, i).operation \in {"LABEL", "GOTO"} /\ At(c, i).arg1 = LabelName(n)
                        \/ At(c, i).operation = "IF_FALSE" /\ At(c, i).arg2 = LabelName(n)}

\* the numbers of the temporaries and of the labels a sequence names
TempsOf(c) ==
    {n \in 1..Len(c) : \E i \in Indices(c) : TempName(n) \in Args(At(c, i)) \cup {At(c, i).result}}

LabelsOf(c) == {n \in 1..(2 * Len(c)) : LabelUses(c, n) # {}}

First(indices) == CHOOSE i \in indices : \A j \in indices : i <= j

RECURSIVE ControlStatements(_)
ControlStatements(stmts) ==
    IF stmts = <<>> THEN <<>>
    ELSE LET s == stmts[1]
         IN  (CASE s.node = "WhileStatement" -> <<s>> \o ControlStatements(s.body)
                [] s.node = "IfStatement" ->
                     <<s>> \o ControlStatements(s.then_body) \o ControlStatements(s.else_body)
                [] OTHER -> <<>>)
             \o ControlStatements(Tail(stmts))

\* the number of operations of an expression
RECURSIVE OperationCount(_)
OperationCount(e) ==
    CASE e.node = "BinaryOperation" -> OperationCount(e.left) + OperationCount(e.right) + 1
      [] e.node = "UnaryOperation" -> OperationCount(e.operand) + 1
      [] OTHER -> 0

\* the number of instructions the spec's lowering gives a statement list
RECURSIVE InstructionCount(_)
InstructionCount(stmts) ==
    IF stmts = <<>> THEN 0
    ELSE LET s == stmts[1]
         IN  (CASE s.node = "AssignmentStatement" ->
                     OperationCount(s.value) + (IF s.operator = "=" THEN 1 ELSE 2)
                [] s.node = "PrintStatement" -> OperationCount(s.expression) + 1
                [] s.node = "ScanStatement" -> 1
                [] s.node = "WhileStatement" ->
                     OperationCount(s.condition) + InstructionCount(s.body) + 4
                [] s.node = "IfStatement" ->
                     OperationCount(s.condition) + InstructionCount(s.then_body) + 2
                     + (IF s.else_body # <<>> THEN InstructionCount(s.else_body) + 2 ELSE 0))
             + InstructionCount(Tail(stmts))

\* the k-th control statement is a while statement whose instructions are laid
\* out in c as the two-label loop shape with its labels L(2k-1) and L(2k)
LoopShape(c, s, k) ==
    LET starts == LabelDefs(c, 2 * k - 1)
        ends   == LabelDefs(c, 2 * k)
        a      == First(starts)
        b      == First(ends)
        test   == a + 1 + OperationCount(s.condition)
    IN  /\ Cardinality(starts) = 1 /\ Cardinality(ends) = 1
        /\ test < b - 1
        /\ At(c, test).operation = "IF_FALSE"
        /\ At(c, test).arg2 = LabelName(2 * k)
        /\ At(c, test).arg1 = IF OperationCount(s.condition) = 0
                               THEN GenExpr(s.condition, NewGenerator).ref
                               ELSE At(c, test - 1).result
        /\ \A i \in (a + 1)..(test - 1) : At(c, i).operation \notin SideEffectOps
        /\ b - 1 - (test + 1) = InstructionCount(s.body)
        /\ At(c, b - 1).operation = "GOTO"
        /\ At(c, b - 1).arg1 = LabelName(2 * k - 1)
        /\ LabelUses(c, 2 * k - 1) = {a, b - 1}
        /\ LabelUses(c, 2 * k) = {test, b}

\* C26: every while statement is lowered to LABEL(start), the condition's
\* instructions, IF_FALSE(condition operand, end), the body's instructions,
\* GOTO(start), LABEL(end), contiguously, with two distinct labels used nowhere
\* else: the GOTO goes back to the LABEL before the condition and the IF_FALSE
\* goes to the LABEL right after the GOTO
C26_WhileIsTwoLabelLoop ==
    pc = "fold" =>
        \A k \in DOMAIN ControlStatements(ast) :
            ControlStatements(ast)[k].node = "WhileStatement" =>
                LoopShape(intermediate_code, ControlStatements(ast)[k], k)

\* a generated sequence of a while statement nested in another one, with a
\* computed condition and a non-empty body
C26_Witness ==
    /\ pc = "fold"
    /\ \E k \in DOMAIN ControlStatements(ast) :
          /\ k > 1
          /\ ControlStatements(ast)[k].node = "WhileStatement"
          /\ ControlStatements(ast)[k].body # <<>>
          /\ ControlStatements(ast)[1].node = "WhileStatement"
          /\ OperationCount(ControlStatements(ast)[1].condition) > 0


\* the precedence level of a binary operator, loosest first
Precedence(op) ==
    CASE op = "||" -> 1
      [] op = "&&" -> 2
      [] op \in {"==", "!="} -> 3
      [] op \in {">", "<", ">=", "<="} -> 4
      [] op \in {"+", "-"} -> 5
      [] op \in {"*", "/"} -> 6

\* the operands and operators of an expression, left to right
RECURSIVE Flatten(_)
Flatten(e) ==
    CASE e.node = "BinaryOperation" ->
            Flatten(e.left) \o <<OpChars(e.operator)>> \o Flatten(e.right)
      [] e.node = "UnaryOperation" -> <<OpChars(e.operator)>> \o Flatten(e.operand)
      [] OTHER -> <<ExprSource(e)>>

\* a binary operation has no looser operation as its left operand and only
\* tighter ones as its right operand; a unary operator has no binary operand
RECURSIVE Grouped(_)
Grouped(e) ==
    CASE e.node = "BinaryOperation" ->
            /\ e.left.node = "BinaryOperation" =>
                  Precedence(e.left.operator) >= Precedence(e.operator)
            /\ e.right.node = "BinaryOperation" =>
                  Precedence(e.right.operator) > Precedence(e.operator)
            /\ Grouped(e.left) /\ Grouped(e.right)
      [] e.node = "UnaryOperation" ->
            e.operand.node # "BinaryOperation" /\ Grouped(e.operand)
      [] OTHER -> TRUE

\* the values of the tokens between the assignment operator and the semicolon
RightHandSide(tokens) == [k \in 1..(Len(tokens) - 4) |-> tokens[k + 2].value]

\* C27: an expression written without parentheses is parsed with the levels
\* logical-or, logical-and, equality, relational, additive, multiplicative,
\* unary from loosest to tightest: the tree keeps the order of the text, operators
\* of one level group to the left, a tighter operator binds first, and a unary
\* operator applies to the primary that follows it
C27_PrecedenceAndLeftAssociativity ==
    /\ compilation_data.errors = <<>>
    /\ pc = "analyze" =>
          /\ Len(ast) = 1
          /\ Flatten(ast[1].value) = RightHandSide(compilation_data.tokens)
          /\ Grouped(ast[1].value)

\* a - 1 - c is parsed as (a - 1) - c
C27_Witness ==
    /\ pc = "analyze"
    /\ ast = <<AssignmentStatement(<<"x">>, "=",
                 BinaryOperation(BinaryOperation(Identifier(<<"a">>), "-", Lit(1)), "-",
                                 Identifier(<<"c">>)))>>


ControlOrEffect(ins) == ins.operation \in SideEffectOps

\* C28: optimize neither deletes nor duplicates nor reorders LABEL, GOTO,
\* IF_FALSE, PRINT and SCAN instructions: their subsequence in the sequence
\* optimize returns is their subsequence in the sequence it was given
C28_ControlAndEffectsAreKept ==
    pc = "codegen" => SelectSeq(code, ControlOrEffect) = SelectSeq(intermediate_code, ControlOrEffect)


\* an operand that is the name of a temporary: t followed by digits
IsTemporary(a) == Len(a) >= 2 /\ a[1] = "t" /\ \A k \in 2..Len(a) : IsDigit(a[k])

\* C29: in the sequence optimize returns for the IR of a semantically valid
\* program, every temporary read by an instruction is the result of an
\* instruction at a lower index
C29_TemporariesAreDefinedBeforeUse ==
    pc = "codegen" =>
        \A i \in Indices(code) : \A a \in Args(At(code, i)) :
            IsTemporary(a) => \E j \in 0..(i - 1) : At(code, j).result = a


\* C30: a call that has returned holds a record made from its own source alone,
\* whatever the other call does meanwhile
C30_ConcurrentCallsAreIsolated ==
    \A t \in Threads :
        calls[t].pc = "done" =>
            instance.dicts[calls[t].result[1]] = Alone(calls[t].source_code)


====
